---- MODULE Spec2Model ----
(***************************************************************************)
(* The WordPress publish pipeline of BlogSystem101:                        *)
(* POST /api/blogs/:id/publish, together with the blog storage and the     *)
(* stored WordPress credentials it reads and writes.                       *)
(*                                                                         *)
(* One publish request is modelled as a sequence of steps; every step is   *)
(* the code between two awaits of the handler.  The remote services        *)
(* (WordPress REST API, the AI text service, the image host) are the       *)
(* environment: each call's outcome is chosen nondeterministically.        *)
(*                                                                         *)
(* Abstractions:                                                           *)
(*  - a text (title, content, category name) is the set of the keywords    *)
(*    the code searches it for; text.includes(w) is membership;            *)
(*  - a 2xx answer of WordPress carries a well-formed JSON body;           *)
(*  - an answer whose body cannot be read is a thrown network error.       *)
(***************************************************************************)
EXTENDS Integers, Sequences, FiniteSets, TLC

(***************************************************************************)
(* Bounds and program constants                                            *)
(***************************************************************************)
\* largest number of tag names the AI text service returns
MaxAiTags == 2

\* const MAX_ATTEMPTS = 8
MAX_ATTEMPTS == 8

\* for (let authAttempt = 1; authAttempt <= 3; authAttempt++)
AUTH_ATTEMPTS == 3

\* a numeric id that is null / undefined / absent (falsy in the code)
Null == 0

(***************************************************************************)
(* Values                                                                  *)
(***************************************************************************)
Range(s) == {s[i] : i \in DOMAIN s}

\* the result of a remote call: a response with a status, or a thrown error
Resp(s) == [kind |-> "response", status |-> s, error |-> ""]
Throw(e) == [kind |-> "throw", status |-> 0, error |-> e]
NoOutcome == [kind |-> "none", status |-> 0, error |-> ""]

\* response.ok
IsOk(o) == o.kind = "response" /\ o.status >= 200 /\ o.status <= 299

\* the outcomes a fetch can have: 2xx, 401, 403, another non-2xx,
\* a network error, an abort by the timeout
FetchOutcomes ==
  {Resp(200), Resp(401), Resp(403), Resp(500), Throw("network"), Throw("timeout")}

\* the `response` variable of the handler: undefined, or the last response
\* received, with the state of its body stream
NoResponse == [status |-> 0, bodyUsed |-> FALSE]

\* the HTTP response of the publish endpoint (status 0: not sent yet)
NoRes ==
  [status |-> 0, error |-> "", details |-> "", needsCredentials |-> FALSE,
   success |-> FALSE]

NoCredentials == [wordpressUrl |-> "", username |-> "", password |-> ""]

StoredCredentials ==
  [wordpressUrl |-> "https://stored.example", username |-> "stored-user",
   password |-> "stored-password"]

RequestCredentials ==
  [wordpressUrl |-> "https://request.example", username |-> "request-user",
   password |-> "request-password"]

\* the hardcoded fallback credentials
DefaultCredentials ==
  [wordpressUrl |-> "https://exoala.com", username |-> "exoala@brenthoke.com",
   password |-> "default-password"]

\* MemStorage.createBlog: the publication attributes of a new blog
NullTagIds == [isNull |-> TRUE, ids |-> <<>>]

\* The markdown image references of the content are kept apart from its words,
\* in reading order: the k-th reference is ![imageAlts[k]](imageUrls[k]).
NewBlog(keyword, title, content, imageUrls) ==
  [id |-> "", keyword |-> keyword, title |-> title, content |-> content,
   imageUrls |-> imageUrls, imageAlts |-> [k \in DOMAIN imageUrls |-> "photo"],
   images |-> <<>>, status |-> "draft",
   wordpressUrl |-> "null", wordpressPostId |-> "null",
   publishedAt |-> "null", categoryId |-> "null", tagIds |-> NullTagIds,
   metaDescription |-> "null", githubFilePath |-> "null",
   githubCommitSha |-> "null", backedUpToGithub |-> "false"]

BlogIds == {"blog_1"}
UnknownBlogId == "blog_x"

\* the blogs a publish is tried on
SampleBlogs ==
  { NewBlog("kw", {}, {}, <<>>),
    NewBlog("kw", {"ai", "tech"}, {}, <<"https://img.example/a.jpg">>),
    NewBlog("kw", {"travel"}, {"passive income"}, <<"https://img.example/a.jpg">>) }

\* the request bodies a publish is tried with
SampleRequests ==
  { [credentials |-> NoCredentials, categoryId |-> Null,
     seoCategoryIds |-> <<>>, hasSeoData |-> FALSE, metaDescription |-> "undefined"],
    [credentials |-> RequestCredentials, categoryId |-> 7,
     seoCategoryIds |-> <<>>, hasSeoData |-> FALSE, metaDescription |-> "meta"],
    [credentials |-> [NoCredentials EXCEPT !.wordpressUrl = "https://request.example"],
     categoryId |-> Null, seoCategoryIds |-> <<5, 9>>, hasSeoData |-> TRUE,
     metaDescription |-> "undefined"],
    [credentials |-> RequestCredentials, categoryId |-> 5,
     seoCategoryIds |-> <<>>, hasSeoData |-> FALSE, metaDescription |-> "undefined"] }


\* the live WordPress categories: id and name
General == [id |-> 3, name |-> {}]
Tools == [id |-> 7, name |-> {"tool"}]
Business == [id |-> 9, name |-> {"business"}]

\* the category lists GET /categories can answer with
LiveCategoryLists == {<<>>, <<General>>, <<General, Tools, Business>>}

\* the tag names the AI text service returns, in order
AiTagNames == <<"alpha", "beta", "gamma", "delta">>

\* the ID WordPress gives to a tag name (found by search, or newly created)
TagIdOf ==
  [n \in {"alpha", "beta", "gamma", "delta", "kw", "business strategy",
          "technology", "marketing", "productivity", "tips"} |->
     CASE n = "alpha" -> 11 [] n = "beta" -> 12 [] n = "gamma" -> 13
       [] n = "delta" -> 14 [] n = "kw" -> 21 [] n = "business strategy" -> 22
       [] n = "technology" -> 23 [] n = "marketing" -> 24
       [] n = "productivity" -> 25 [] n = "tips" -> 26]

AllTagIds == {TagIdOf[n] : n \in DOMAIN TagIdOf}

\* the tag ID lists GET /tags?per_page=100 can answer with
LiveTagLists == {AllTagIds, AllTagIds \ {11, 21}}

\* the post WordPress answers a successful create-post with
PublishedPost == [id |-> "101", link |-> "https://wp.example/?p=101"]

\* categoryId?.toString()
ToStr(n) ==
  CASE n = Null -> "undefined" [] n = 3 -> "3" [] n = 5 -> "5"
    [] n = 7 -> "7" [] n = 9 -> "9"

(***************************************************************************)
(* Pure parts of the handler                                               *)
(***************************************************************************)
\* !wordpressUrl || !username || !password
Incomplete(c) == c.wordpressUrl = "" \/ c.username = "" \/ c.password = ""

\* a || b on strings
OrElse(a, b) == IF a # "" THEN a ELSE b

\* credential resolution: the request's values when complete, else the
\* stored settings (per field, falling back to the request), else the default
ResolveCredentials(c, stored) ==
  IF ~Incomplete(c) THEN c
  ELSE IF stored # NoCredentials
       THEN [wordpressUrl |-> OrElse(stored.wordpressUrl, c.wordpressUrl),
             username |-> OrElse(stored.username, c.username),
             password |-> OrElse(stored.password, c.password)]
       ELSE DefaultCredentials

\* a bug: the same wait after every failed attempt
AuthDelayConstant(a) == 1000

\* the wait after failed auth attempt a: authAttempt * 1000
AuthDelay(a) == a * 1000

\* the fallback tag names when the AI call fails
FallbackTags(b) ==
  <<b.keyword>>
    \o (IF "business" \in b.title THEN <<"business strategy">> ELSE <<>>)
    \o (IF "tech" \in b.title THEN <<"technology">> ELSE <<>>)
    \o (IF "marketing" \in b.title THEN <<"marketing">> ELSE <<>>)
    \o <<"productivity", "tips">>

\* blog.content.match(/!\[([^\]]*)\]\(([^)]+)\)/): the first image's URL
FeaturedImageUrl(b) == IF b.imageUrls # <<>> THEN b.imageUrls[1] ELSE ""

\* seoData?.categoryIds || (categoryId ? [categoryId] : [])
RequestedCategoryIds(r) ==
  IF r.hasSeoData THEN r.seoCategoryIds
  ELSE IF r.categoryId # Null THEN <<r.categoryId>> ELSE <<>>

\* availableCategories.find(cat => cat.name includes one of words):
\* the index of the first such category, 0 when there is none
FindCategory(cats, words) ==
  LET hits == {i \in DOMAIN cats : cats[i].name \cap words # {}}
  IN IF hits = {} THEN 0 ELSE CHOOSE i \in hits : \A j \in hits : i <= j

\* the content-keyword heuristics: the index of the category they choose,
\* 0 when they choose none
HeuristicMatch(b, cats) ==
  LET m1 == IF b.title \cap {"ai", "automation"} # {}
               \/ "artificial intelligence" \in b.content
            THEN FindCategory(cats, {"ai", "automation", "tool"}) ELSE 0
      m2 == IF m1 = 0 /\ (b.title \cap {"income", "money"} # {}
                          \/ "passive income" \in b.content)
            THEN FindCategory(cats, {"income", "business", "affiliate"}) ELSE m1
  IN IF m2 = 0 /\ (b.title \cap {"travel", "nomad"} # {}
                   \/ "digital nomad" \in b.content)
     THEN FindCategory(cats, {"nomad", "travel", "abroad"}) ELSE m2

\* a bug: the heuristics without the ultimate fallback
BestMatchNoUltimateFallback(b, cats) == HeuristicMatch(b, cats)

\* bestMatch: the heuristics, else the first available category
BestMatch(b, cats) ==
  IF HeuristicMatch(b, cats) = 0 /\ Len(cats) > 0 THEN 1
  ELSE HeuristicMatch(b, cats)

\* the requested category IDs that are in the live list
ValidRequestedIds(categoryIds, cats) ==
  SelectSeq(categoryIds, LAMBDA c : c \in {cats[i].id : i \in DOMAIN cats})

\* validCategoryIds: the valid requested IDs, else the smart fallback
ResolveCategoryIds(categoryIds, b, cats) ==
  LET valid == ValidRequestedIds(categoryIds, cats)
      best == BestMatch(b, cats)
  IN IF valid = <<>> /\ Len(cats) > 0
     THEN (IF best # 0 THEN <<cats[best].id>> ELSE <<>>)
     ELSE valid

\* the tagsResponse of the validation step
TagsSkipped == [kind |-> "skipped", ids |-> {}]
TagsThrew == [kind |-> "threw", ids |-> {}]
TagsFailed == [kind |-> "failed", ids |-> {}]
TagsOk(live) == [kind |-> "ok", ids |-> live]

\* a bug: the tag IDs are not checked against the live list
ValidateTagIdsUnfiltered(ids, tr) ==
  IF tr.kind \in {"ok", "threw"} THEN ids ELSE <<>>

\* validTagIds
ValidateTagIds(ids, tr) ==
  CASE tr.kind = "ok" -> SelectSeq(ids, LAMBDA t : t \in tr.ids)
    [] tr.kind = "threw" -> ids
    [] OTHER -> <<>>

\* the body of the create-post request
BuildWordpressData(b, cats, tags, mediaId, meta, imageUrl) ==
  [title |-> b.title, status |-> "publish", categories |-> cats, tags |-> tags,
   featured_media |-> Null,
   metadesc |-> IF meta # "undefined" THEN meta ELSE "excerpt",
   thumbnail |-> IF imageUrl # "" THEN "external" ELSE ""]

NoWordpressData ==
  [title |-> {}, status |-> "", categories |-> <<>>, tags |-> <<>>,
   featured_media |-> Null, metadesc |-> "", thumbnail |-> ""]

\* a bug: only 401 stops the retries
IsFatalStatus401Only(s) == s = 401

\* 401 / 403 stop the retries
IsFatalStatus(s) == s \in {401, 403}

\* 2^n, 3^n
Pow(b, n) == IF n = 0 THEN 1 ELSE IF n = 1 THEN b ELSE IF n = 2 THEN b * b
  ELSE IF n = 3 THEN b * b * b ELSE IF n = 4 THEN b * b * b * b
  ELSE IF n = 5 THEN b * b * b * b * b ELSE b * b * b * b * b * b

Min(a, b) == IF a <= b THEN a ELSE b

\* a bug: the delay doubles (3 s, 6 s, 12 s, ...), as the comment above the
\* first delay in the code says
RetryDelayDoubling(a) == Min(3000 * Pow(2, a - 1) * 64, 60000 * 64)

\* Math.min(3000 * Math.pow(1.5, attempt - 1), 60000), in 1/64 ms
\* (3000 * 1.5^k * 64 = 3000 * 3^k * 2^(6-k) is an integer for k <= 6)
RetryDelay(a) == Min(3000 * Pow(3, a - 1) * Pow(2, 7 - a), 60000 * 64)

\* Math.min(30000 + (attempt - 1) * 15000, 135000)
AttemptTimeout(a) == Min(30000 + (a - 1) * 15000, 135000)

\* the error message of the final failure
ErrorMessage(r) ==
  IF r = NoResponse THEN "WordPress publishing failed after 8 attempts"
  ELSE IF r.bodyUsed
       THEN (CASE r.status = 401 -> "WordPress HTTP 401 error"
               [] r.status = 403 -> "WordPress HTTP 403 error"
               [] OTHER -> "WordPress HTTP 500 error")
       ELSE "WordPress error: message"

\* MemStorage.updateBlog: { ...existingBlog, ...updateBlog }
UpdateBlog(store, id, fields) ==
  IF id \notin DOMAIN store THEN store
  ELSE [store EXCEPT ![id] =
          [f \in DOMAIN store[id] |->
             IF f \in DOMAIN fields THEN fields[f] ELSE store[id][f]]]

(***************************************************************************)
(* State                                                                   *)
(***************************************************************************)
VARIABLES
  blogs,                \* the blog storage: id -> Blog
  storedCredentials,    \* the stored WordPress credentials, NoCredentials if none
  req,                  \* the publish request: params.id and body
  pc,                   \* the step the handler is at
  blog,                 \* the Blog read by LoadBlog
  credentials,          \* wordpressUrl, username, password of the handler
  authAttempt,          \* the auth probe's loop counter
  authSuccess,
  authWait,             \* the wait done by the last auth probe iteration, ms
  dynamicTags,
  tagIndex,             \* position of the tag loop in dynamicTags
  tagIds,
  tagOutcome,           \* what handling the latest tag name ended in
  featuredImageUrl,
  featuredMediaId,
  availableCategories,
  validCategoryIds,
  tagsResponse,
  validTagIds,
  wordpressData,
  attempt,              \* create-post attempts made so far
  failures,             \* create-post attempts that failed and were retryable
  lastOutcome,          \* the outcome of the latest create-post attempt
  response,             \* the handler's `response` variable
  publishSuccess,
  retryWait,            \* the wait done by the last create-post iteration, 1/64 ms
  steps,                \* the pipeline steps started, in order
  error,                \* the message of the Error thrown to the handler's catch
  res,                  \* the HTTP response sent to the caller
  dbBlogs,              \* the blogs table of the database: id -> Blog
  storageInstance,      \* the storage the proxy forwards to
  nextId,               \* how many blog IDs have been generated
  liveIds,              \* the IDs created and not deleted by the delete endpoint
  publishedIds,         \* the IDs a publish has succeeded for
  apiRes,               \* the latest request of the blog/credentials API and its answer
  backup,               \* the source backup a publish schedules, and how it ended
  categoriesData,       \* client: the live categories fetched before a publish
  suggestedCategories,  \* client: the category names the SEO analysis suggests
  matchedCategories,    \* client: the live categories matched so far
  suggestionIndex,      \* client: position of the matching loop
  publishes,            \* the publish requests in flight: request -> its handler
  wordpressPosts,       \* the posts WordPress has created, in order: the blog of each
  unsplashKeys,         \* UNSPLASH_KEYS: for each key, what the photo API answers it
  currentKeyIndex,      \* the module-level rotation index of the stock-photo keys
  rotationCalls,        \* the fetchWithUnsplashRotation calls in flight
  clientPc,             \* client: where api.publishBlog is
  clientCall,           \* client: the arguments of api.publishBlog
  serverAnswer,         \* client: the answer of the publish endpoint
  clientResult,         \* client: what the promise of api.publishBlog settled with
  markdown,             \* the markdown content handed to the transform and the excerpt
  htmlContent,          \* the HTML the transform produced
  cleanExcerpt          \* the excerpt computed from the markdown

vars ==
  <<blogs, storedCredentials, req, pc, blog, credentials, authAttempt,
    authSuccess, authWait, dynamicTags, tagIndex, tagIds, tagOutcome,
    featuredImageUrl,
    featuredMediaId, availableCategories, validCategoryIds, tagsResponse,
    validTagIds, wordpressData, attempt, failures, lastOutcome, response,
    publishSuccess, retryWait, steps, error, res, dbBlogs, storageInstance,
    nextId, liveIds, publishedIds, apiRes, backup, categoriesData,
    suggestedCategories, matchedCategories, suggestionIndex, publishes,
    wordpressPosts, unsplashKeys, currentKeyIndex, rotationCalls, clientPc, clientCall,
    serverAnswer,
    clientResult, markdown, htmlContent, cleanExcerpt>>

storageVars == <<blogs, storedCredentials>>
apiVars == <<dbBlogs, storageInstance, nextId, liveIds, apiRes>>
authVars == <<authAttempt, authSuccess, authWait>>
tagVars == <<dynamicTags, tagIndex, tagIds, tagOutcome>>
imageVars == <<featuredImageUrl, featuredMediaId>>
taxonomyVars == <<availableCategories, validCategoryIds, tagsResponse, validTagIds, wordpressData>>
postVars == <<attempt, failures, lastOutcome, response, publishSuccess, retryWait>>
backupVars == <<backup>>
matchVars == <<categoriesData, suggestedCategories, matchedCategories, suggestionIndex>>
raceVars == <<publishes, wordpressPosts>>
rotationVars == <<unsplashKeys, currentKeyIndex, rotationCalls>>
clientVars == <<clientPc, clientCall, serverAnswer, clientResult>>
textVars == <<markdown, htmlContent, cleanExcerpt>>
\* the state outside the publish handler, the storage and the blog routes
sideVars == <<matchVars, raceVars, rotationVars, clientVars, textVars>>
NoBlog == NewBlog("", {}, {}, <<>>)
NoApiRes == [op |-> "", id |-> "", arg |-> <<>>, status |-> 0]
handlerVars ==
  <<req, pc, blog, credentials, authVars, tagVars, imageVars, taxonomyVars,
    postVars, steps, error, res, backupVars>>

\* nothing outside the publish handler, the storage and the blog routes runs
NoMatching ==
  /\ categoriesData = <<>>
  /\ suggestedCategories = <<>>
  /\ matchedCategories = <<>>
  /\ suggestionIndex = 0
NoPublishes == publishes = <<>> /\ wordpressPosts = <<>>
NoRotation == unsplashKeys = <<>> /\ currentKeyIndex = 0 /\ rotationCalls = <<>>
NoClient ==
  /\ clientPc = "idle"
  /\ clientCall = [blogId |-> "", credentials |-> NoCredentials, seoData |-> "undefined"]
  /\ serverAnswer = [kind |-> "none", status |-> 0, body |-> ""]
  /\ clientResult = [kind |-> "none", message |-> <<>>]
NoHtml == [done |-> FALSE, blocks |-> <<>>]
NoExcerpt == [kind |-> "none", len |-> 0, firstSentence |-> <<>>]
NoText == markdown = <<>> /\ htmlContent = NoHtml /\ cleanExcerpt = NoExcerpt
SideIdle == NoMatching /\ NoPublishes /\ NoRotation /\ NoClient /\ NoText

\* the local variables of a publish handler that has not run yet
HandlerStart ==
  /\ blog = NoBlog
  /\ authAttempt = 0
  /\ authSuccess = FALSE
  /\ authWait = 0
  /\ dynamicTags = <<>>
  /\ tagIndex = 0
  /\ tagIds = <<>>
  /\ tagOutcome = "none"
  /\ featuredImageUrl = ""
  /\ featuredMediaId = Null
  /\ availableCategories = <<>>
  /\ validCategoryIds = <<>>
  /\ tagsResponse = TagsSkipped
  /\ validTagIds = <<>>
  /\ wordpressData = NoWordpressData
  /\ attempt = 0
  /\ failures = 0
  /\ lastOutcome = NoOutcome
  /\ response = NoResponse
  /\ publishSuccess = FALSE
  /\ retryWait = 0
  /\ steps = <<>>
  /\ error = ""
  /\ res = NoRes
  /\ backup = "none"

Init ==
  /\ \E b \in SampleBlogs : blogs = [i \in BlogIds |-> [b EXCEPT !.id = i]]
  /\ storedCredentials \in {NoCredentials, StoredCredentials}
  /\ \E i \in BlogIds \cup {UnknownBlogId}, body \in SampleRequests :
       req = [id |-> i, body |-> body]
  /\ pc = "LoadBlog"
  /\ credentials = req.body.credentials
  /\ HandlerStart
  /\ dbBlogs = <<>>
  /\ storageInstance = "MemStorage"
  /\ nextId = Cardinality(BlogIds)
  /\ liveIds = BlogIds
  /\ publishedIds = {}
  /\ apiRes = NoApiRes
  /\ SideIdle

(***************************************************************************)
(* The steps of POST /api/blogs/:id/publish                                *)
(***************************************************************************)
\* storage.getBlog(req.params.id); 404 when it is unknown
LoadBlog ==
  /\ pc = "LoadBlog"
  /\ steps' = Append(steps, "LoadBlog")
  /\ IF req.id \in DOMAIN blogs
     THEN /\ blog' = blogs[req.id]
          /\ pc' = "Credentials"
          /\ res' = res
     ELSE /\ blog' = blog
          /\ pc' = "done"
          /\ res' = [NoRes EXCEPT !.status = 404, !.error = "Blog not found"]
  /\ UNCHANGED <<sideVars, backupVars, apiVars, publishedIds, error, storageVars, req, credentials, authVars, tagVars, imageVars,
                 taxonomyVars, postVars>>

\* credential resolution and the final validation of the credentials
Credentials ==
  /\ pc = "Credentials"
  /\ credentials' = ResolveCredentials(credentials, storedCredentials)
  /\ IF Incomplete(credentials')
     THEN /\ pc' = "done"
          /\ res' = [NoRes EXCEPT !.status = 400,
                                  !.error = "WordPress credentials are incomplete",
                                  !.needsCredentials = TRUE]
          /\ authAttempt' = authAttempt
     ELSE /\ pc' = "Auth"
          /\ res' = res
          /\ authAttempt' = 1
  /\ UNCHANGED <<sideVars, backupVars, apiVars, publishedIds, error, storageVars, req, blog, authSuccess, authWait, tagVars,
                 imageVars, taxonomyVars, postVars, steps>>

\* one iteration of the auth probe loop: GET /users/me, then the wait
AuthProbe ==
  /\ pc = "Auth"
  /\ authAttempt <= AUTH_ATTEMPTS
  /\ steps' = IF authAttempt = 1 THEN Append(steps, "Authenticate") ELSE steps
  /\ \E o \in FetchOutcomes :
       IF IsOk(o)
       THEN /\ authSuccess' = TRUE
            /\ authWait' = 0
            /\ authAttempt' = 0
            /\ pc' = "GenerateTags"
            /\ res' = res
       ELSE /\ authSuccess' = FALSE
            /\ IF authAttempt < AUTH_ATTEMPTS
               THEN /\ authWait' = AuthDelay(authAttempt)
                    /\ authAttempt' = authAttempt + 1
                    /\ pc' = "Auth"
                    /\ res' = res
               ELSE /\ authWait' = 0
                    /\ authAttempt' = 0
                    /\ pc' = "done"
                    /\ res' = [NoRes EXCEPT
                                 !.status = 401,
                                 !.error = "WordPress authentication failed after multiple attempts",
                                 !.details = "Please verify your WordPress URL, username, and application password",
                                 !.needsCredentials = TRUE]
  /\ UNCHANGED <<sideVars, backupVars, apiVars, publishedIds, error, storageVars, req, blog, credentials, tagVars, imageVars,
                 taxonomyVars, postVars>>

\* the AI tag call: the tag names it returns, or the fallback tags
GenerateTags ==
  /\ pc = "GenerateTags"
  /\ steps' = Append(steps, "GenerateTags")
  /\ \/ \E n \in 0..MaxAiTags : dynamicTags' = SubSeq(AiTagNames, 1, n)
     \/ dynamicTags' = FallbackTags(blog)
  /\ tagIds' = <<>>
  /\ tagOutcome' = "none"
  /\ IF dynamicTags' # <<>>
     THEN pc' = "ResolveTags" /\ tagIndex' = 1
     ELSE pc' = "Transform" /\ tagIndex' = 0
  /\ UNCHANGED <<sideVars, backupVars, apiVars, publishedIds, error, storageVars, req, blog, credentials, authVars, imageVars,
                 taxonomyVars, postVars, res>>

\* what handling one tag name can end in
TagOutcomes ==
  {"searchFailed", "searchThrew", "found", "created", "createFailed", "createThrew"}

\* a bug: a failure while handling one name ends the loop
ResolveTagStopsOnFailure ==
  /\ pc = "ResolveTags"
  /\ tagIndex \in 1..Len(dynamicTags)
  /\ steps' = IF tagIndex = 1 THEN Append(steps, "ResolveTags") ELSE steps
  /\ \E o \in TagOutcomes :
       /\ tagOutcome' = o
       /\ tagIds' = IF o \in {"found", "created"}
                    THEN Append(tagIds, TagIdOf[dynamicTags[tagIndex]])
                    ELSE tagIds
  /\ IF tagIndex < Len(dynamicTags) /\ tagOutcome' \in {"found", "created"}
     THEN pc' = pc /\ tagIndex' = tagIndex + 1
     ELSE pc' = "Transform" /\ tagIndex' = 0
  /\ UNCHANGED <<sideVars, backupVars, apiVars, publishedIds, error, storageVars, req, blog, credentials, authVars, dynamicTags,
                 imageVars, taxonomyVars, postVars, res>>

\* one iteration of the tag loop: search the name, create it when not found
ResolveTag ==
  /\ pc = "ResolveTags"
  /\ tagIndex \in 1..Len(dynamicTags)
  /\ steps' = IF tagIndex = 1 THEN Append(steps, "ResolveTags") ELSE steps
  /\ \E o \in TagOutcomes :
       /\ tagOutcome' = o
       /\ tagIds' = IF o \in {"found", "created"}
                    THEN Append(tagIds, TagIdOf[dynamicTags[tagIndex]])
                    ELSE tagIds
  /\ IF tagIndex < Len(dynamicTags)
     THEN pc' = pc /\ tagIndex' = tagIndex + 1
     ELSE pc' = "Transform" /\ tagIndex' = 0
  /\ UNCHANGED <<sideVars, backupVars, apiVars, publishedIds, error, storageVars, req, blog, credentials, authVars, dynamicTags,
                 imageVars, taxonomyVars, postVars, res>>

\* markdown to HTML; the first image of the content is the featured image
TransformContent ==
  /\ pc = "Transform"
  /\ steps' = Append(steps, "TransformContent")
  /\ featuredImageUrl' = FeaturedImageUrl(blog)
  /\ featuredMediaId' = Null
  /\ pc' = IF featuredImageUrl' # "" THEN "UploadImage" ELSE "Categories"
  /\ tagOutcome' = "none"                 \* scoped to the body of the tag loop
  /\ UNCHANGED <<sideVars, backupVars, apiVars, publishedIds, error, storageVars, req, blog, credentials, authVars, dynamicTags,
                 tagIndex, tagIds, taxonomyVars, postVars, res>>

\* what the download and the upload of the featured image can end in
ImageOutcomes ==
  {"downloadFailed", "downloadThrew", "invalidSize", "uploadFailed",
   "uploadThrew", "uploaded"}

\* the media ID the upload yields
MediaIdOf(o) == IF o = "uploaded" THEN 42 ELSE Null

\* a bug: a thrown download or upload reaches the handler's catch
ImageStepNextUncaught(o) ==
  IF o \in {"downloadThrew", "uploadThrew"} THEN "Thrown" ELSE "Categories"

\* the download and the upload of the featured image are inside a try/catch:
\* whatever they end in, the handler goes on with the category fetch
ImageStepNext(o) == "Categories"

\* download the featured image and upload it as WordPress media
UploadFeaturedImage ==
  /\ pc = "UploadImage"
  /\ steps' = Append(steps, "UploadFeaturedImage")
  /\ \E o \in ImageOutcomes :
       /\ featuredMediaId' = MediaIdOf(o)
       /\ pc' = ImageStepNext(o)
  /\ UNCHANGED <<sideVars, backupVars, apiVars, publishedIds, error, storageVars, req, blog, credentials, authVars, tagVars,
                 featuredImageUrl, taxonomyVars, postVars, res>>

\* a bug: the create-post loop is started ahead of the category fetch
FetchCategoriesSkipped ==
  /\ pc = "Categories"
  /\ pc' = "CreatePost"
  /\ tagsResponse' = TagsSkipped
  /\ validTagIds' = <<>>
  /\ wordpressData' =
       BuildWordpressData(blog, validCategoryIds, validTagIds', featuredMediaId,
                          req.body.metaDescription, featuredImageUrl)
  /\ UNCHANGED <<sideVars, backupVars, apiVars, publishedIds, error, storageVars, req, blog, credentials, authVars, tagVars,
                 imageVars, availableCategories, validCategoryIds, postVars, steps, res>>

\* the live category fetch, the validation of the requested category IDs
\* and the smart fallback; with no tag IDs the create-post body follows
FetchCategories ==
  /\ pc = "Categories"
  /\ steps' = Append(steps, "ResolveCategories")
  /\ \/ availableCategories' = <<>>                       \* threw, or non-2xx
     \/ \E live \in LiveCategoryLists : availableCategories' = live
  /\ validCategoryIds' =
       ResolveCategoryIds(RequestedCategoryIds(req.body), blog, availableCategories')
  /\ IF tagIds # <<>>
     THEN /\ pc' = "ValidateTags"
          /\ UNCHANGED <<tagsResponse, validTagIds, wordpressData>>
     ELSE /\ pc' = "CreatePost"
          /\ tagsResponse' = TagsSkipped
          /\ validTagIds' = <<>>
          /\ wordpressData' =
               BuildWordpressData(blog, validCategoryIds', validTagIds',
                                  featuredMediaId, req.body.metaDescription,
                                  featuredImageUrl)
  /\ UNCHANGED <<sideVars, backupVars, apiVars, publishedIds, error, storageVars, req, blog, credentials, authVars, tagVars,
                 imageVars, postVars, res>>

\* the live tag fetch and the validation of the tag IDs, then the
\* create-post body
ValidateTags ==
  /\ pc = "ValidateTags"
  /\ steps' = Append(steps, "ValidateTags")
  /\ \/ tagsResponse' \in {TagsThrew, TagsFailed}
     \/ \E live \in LiveTagLists : tagsResponse' = TagsOk(live)
  /\ validTagIds' = ValidateTagIds(tagIds, tagsResponse')
  /\ wordpressData' =
       BuildWordpressData(blog, validCategoryIds, validTagIds', featuredMediaId,
                          req.body.metaDescription, featuredImageUrl)
  /\ pc' = "CreatePost"
  /\ UNCHANGED <<sideVars, backupVars, apiVars, publishedIds, error, storageVars, req, blog, credentials, authVars, tagVars,
                 imageVars, availableCategories, validCategoryIds, postVars, res>>

\* a bug: no break after a 2xx
LoopContinuesPastSuccess(a, o) ==
  /\ ~(o.kind = "response" /\ IsFatalStatus(o.status))
  /\ a < MAX_ATTEMPTS

\* whether the retry loop goes on after attempt a ended in outcome o
LoopContinues(a, o) ==
  /\ ~IsOk(o)
  /\ ~(o.kind = "response" /\ IsFatalStatus(o.status))
  /\ a < MAX_ATTEMPTS

\* whether attempt a, ended in outcome o, is followed by a backoff wait
WaitsAfter(a, o) ==
  /\ ~IsOk(o)
  /\ ~(o.kind = "response" /\ IsFatalStatus(o.status))
  /\ a < MAX_ATTEMPTS

\* the `response` variable after an attempt ended in outcome o: a thrown
\* fetch leaves it as it was; the body of a non-2xx response is read
ResponseAfter(r, o) ==
  IF o.kind = "response"
  THEN [status |-> o.status, bodyUsed |-> ~IsOk(o)]
  ELSE r

\* one iteration of the create-post retry loop: POST /posts, then the wait
CreatePostAttempt ==
  /\ pc = "CreatePost"
  /\ attempt < MAX_ATTEMPTS
  /\ steps' = IF attempt = 0 THEN Append(steps, "CreatePost") ELSE steps
  /\ attempt' = attempt + 1
  /\ \E o \in FetchOutcomes :
       /\ lastOutcome' = o
       /\ response' = ResponseAfter(response, o)
       /\ publishSuccess' = (publishSuccess \/ IsOk(o))
       /\ failures' = IF IsOk(o) \/ (o.kind = "response" /\ IsFatalStatus(o.status))
                      THEN failures ELSE failures + 1
       /\ retryWait' = IF WaitsAfter(attempt', o) THEN RetryDelay(attempt') ELSE 0
       /\ pc' = IF LoopContinues(attempt', o) THEN "CreatePost" ELSE "AfterLoop"
  /\ UNCHANGED <<sideVars, backupVars, apiVars, publishedIds, error, storageVars, req, blog, credentials, authVars, tagVars,
                 imageVars, taxonomyVars, res>>

\* response?.ok
ResponseOk(r) == r.status >= 200 /\ r.status <= 299

\* if (!publishSuccess || !response?.ok) throw new Error(errorMessage)
FinalFailure ==
  /\ pc = "AfterLoop"
  /\ ~publishSuccess \/ ~ResponseOk(response)
  /\ error' = ErrorMessage(response)
  /\ pc' = "Thrown"
  /\ UNCHANGED <<sideVars, backupVars, apiVars, publishedIds, storageVars, req, blog, credentials, authVars, tagVars,
                 imageVars, taxonomyVars, postVars, steps, res>>

\* the handler's catch: 500 with the error's message as details
CatchError ==
  /\ pc = "Thrown"
  /\ res' = [NoRes EXCEPT !.status = 500,
                          !.error = "Failed to publish to WordPress",
                          !.details = error]
  /\ pc' = "done"
  /\ UNCHANGED <<sideVars, backupVars, apiVars, publishedIds, error, storageVars, req, blog, credentials, authVars, tagVars,
                 imageVars, taxonomyVars, postVars, steps>>

\* the fields a publish with request body `body` and resolved tag IDs `tags`
\* writes back onto the Blog
PublishedFieldsOf(body, tags) ==
  [status |-> "published",
   wordpressUrl |-> PublishedPost.link,
   wordpressPostId |-> PublishedPost.id,
   publishedAt |-> "now",
   categoryId |-> ToStr(body.categoryId),
   tagIds |-> [isNull |-> FALSE, ids |-> tags],
   metaDescription |-> body.metaDescription]

PublishedFields == PublishedFieldsOf(req.body, tagIds)

\* a bug: the record is written whatever the create-post loop ended with
PersistResultUnguarded ==
  /\ pc = "AfterLoop"
  /\ steps' = Append(steps, "PersistResult")
  /\ blogs' = UpdateBlog(blogs, blog.id, PublishedFields)
  /\ publishedIds' = publishedIds \cup {blog.id}
  /\ backup' = "scheduled"             \* backgroundServices.scheduleSourceBackup()
  /\ res' = [NoRes EXCEPT !.status = 200, !.success = TRUE]
  /\ pc' = "done"
  /\ UNCHANGED <<sideVars, apiVars, error, storedCredentials, req, blog, credentials, authVars, tagVars,
                 imageVars, taxonomyVars, postVars>>

\* storage.updateBlog with the publication details, then the 2xx answer
PersistResult ==
  /\ pc = "AfterLoop"
  /\ publishSuccess /\ ResponseOk(response)
  /\ steps' = Append(steps, "PersistResult")
  /\ blogs' = UpdateBlog(blogs, blog.id, PublishedFields)
  /\ publishedIds' = publishedIds \cup {blog.id}
  /\ backup' = "scheduled"             \* backgroundServices.scheduleSourceBackup()
  /\ res' = [NoRes EXCEPT !.status = 200, !.success = TRUE]
  /\ pc' = "done"
  /\ UNCHANGED <<sideVars, apiVars, error, storedCredentials, req, blog, credentials, authVars, tagVars,
                 imageVars, taxonomyVars, postVars>>

\* the remote calls of a publish
NetworkCalls ==
  {"authProbe", "tagGeneration", "tagSearch", "tagCreate", "imageDownload",
   "mediaUpload", "categoryFetch", "tagFetch", "createPost"}

\* the time after which a timer aborts the call, ms; 0 when nothing aborts it:
\* the AbortController of the tag generation is never handed to the call, and
\* the category fetch and the tag fetch are made without a signal
AbortAfter(call) ==
  CASE call = "authProbe" -> 15000
    [] call = "tagGeneration" -> 0
    [] call \in {"tagSearch", "tagCreate"} -> 5000
    [] call = "imageDownload" -> 8000
    [] call = "mediaUpload" -> 12000
    [] call \in {"categoryFetch", "tagFetch"} -> 0
    [] call = "createPost" -> AttemptTimeout(attempt + 1)

\* the remote calls the step at p makes
CallsAt(p) ==
  CASE p = "Auth" -> {"authProbe"}
    [] p = "GenerateTags" -> {"tagGeneration"}
    [] p = "ResolveTags" -> {"tagSearch", "tagCreate"}
    [] p = "UploadImage" -> {"imageDownload", "mediaUpload"}
    [] p = "Categories" -> {"categoryFetch"}
    [] p = "ValidateTags" -> {"tagFetch"}
    [] p = "CreatePost" -> {"createPost"}
    [] OTHER -> {}

\* the remote endpoint of a call never answers and no timer aborts the call:
\* the await never returns (an aborted call is a thrown outcome of its step)
NeverAnswers ==
  /\ \E call \in CallsAt(pc) : AbortAfter(call) = 0
  /\ pc' = "Hung"
  /\ UNCHANGED <<sideVars, backupVars, apiVars, publishedIds, error, storageVars, req, blog, credentials,
                 authVars, tagVars, imageVars, taxonomyVars, postVars, steps, res>>

\* what a run of backupSourceCode ends in: no GitHub credentials are stored,
\* the GitHub API fails, a file cannot be read or recorded, or all is backed up
BackupOutcomes == {"noCredentials", "githubError", "fileError", "backedUp"}

\* a bug: the handler waits for the backup, and a failed backup reaches the
\* handler's catch
BackupSourceCodeAwaited ==
  /\ backup = "scheduled"
  /\ \E o \in BackupOutcomes :
       /\ backup' = o
       /\ res' = IF o = "backedUp" THEN res
                 ELSE [NoRes EXCEPT !.status = 500,
                                    !.error = "Failed to publish to WordPress",
                                    !.details = o]
  /\ UNCHANGED <<sideVars, apiVars, publishedIds, error, storageVars, req, pc, blog,
                 credentials, authVars, tagVars, imageVars, taxonomyVars, postVars,
                 steps>>

\* the timer of scheduleSourceBackup fires: backupSourceCode runs on its own,
\* logs whatever fails, and keeps its records in a file of its own
BackupSourceCode ==
  /\ backup = "scheduled"
  /\ \E o \in BackupOutcomes : backup' = o
  /\ UNCHANGED <<sideVars, apiVars, publishedIds, error, storageVars, req, pc, blog,
                 credentials, authVars, tagVars, imageVars, taxonomyVars, postVars,
                 steps, res>>

Next ==
  \/ LoadBlog
  \/ Credentials
  \/ AuthProbe
  \/ GenerateTags
  \/ ResolveTag
  \/ TransformContent
  \/ UploadFeaturedImage
  \/ FetchCategories
  \/ ValidateTags
  \/ CreatePostAttempt
  \/ FinalFailure
  \/ CatchError
  \/ PersistResult
  \/ BackupSourceCode
  \/ NeverAnswers

Spec == Init /\ [][Next]_vars

(***************************************************************************)
(* The blog storage and the blog routes                                    *)
(***************************************************************************)
\* the most blogs created, and the most entries of an images array
MaxBlogs == 2
MaxImages == 3

\* the IDs createBlog generates, in the order it generates them
GeneratedIds == <<"blog_1", "blog_2", "blog_3", "blog_4">>

\* the bodies POST /api/blogs is tried with; status "undefined": none given
Photo1 == [url |-> "https://img.example/a.jpg", description |-> "first"]
Photo2 == [url |-> "https://img.example/b.jpg", description |-> "second"]

SampleInserts ==
  { [keyword |-> "kw", title |-> {"travel"}, content |-> {},
     imageUrls |-> <<Photo1.url, Photo2.url>>,
     imageAlts |-> <<Photo1.description, Photo2.description>>,
     images |-> <<Photo1, Photo2>>, status |-> "undefined"],
    [keyword |-> "kw", title |-> {"travel"}, content |-> {},
     imageUrls |-> <<>>, imageAlts |-> <<>>, images |-> <<>>,
     status |-> "published"] }

\* the storage the proxy forwards to holds its blogs in the database
UsesDatabase == storageInstance = "DatabaseStorage"

\* the blogs of the storage the proxy forwards to
Store == IF UsesDatabase THEN dbBlogs ELSE blogs

\* a write of the storage the proxy forwards to
SetStore(s) ==
  /\ blogs' = IF UsesDatabase THEN blogs ELSE s
  /\ dbBlogs' = IF UsesDatabase THEN s ELSE dbBlogs

\* MemStorage.createBlog / DatabaseStorage.createBlog: both give a blog with
\* the content of the body, status defaulting to "draft"
CreateBlog(id, insertBlog) ==
  [NewBlog(insertBlog.keyword, insertBlog.title, insertBlog.content,
           insertBlog.imageUrls)
     EXCEPT !.id = id,
            !.imageAlts = insertBlog.imageAlts,
            !.images = insertBlog.images,
            !.status = IF insertBlog.status # "undefined"
                       THEN insertBlog.status ELSE "draft"]

\* the fields of a blog that hold text, null or undefined
TextFields ==
  {"status", "wordpressUrl", "wordpressPostId", "publishedAt", "categoryId",
   "metaDescription", "githubFilePath", "githubCommitSha", "backedUpToGithub"}

\* DatabaseStorage.updateBlog: update ... set writes the keys that have a value
UpdateBlogInDatabase(store, id, fields) ==
  IF id \notin DOMAIN store THEN store
  ELSE [store EXCEPT ![id] =
          [f \in DOMAIN store[id] |->
             IF f \in DOMAIN fields
                /\ (f \notin TextFields \/ fields[f] # "undefined")
             THEN fields[f] ELSE store[id][f]]]

\* storage.updateBlog through the proxy
StorageUpdateBlog(id, fields) ==
  IF UsesDatabase THEN UpdateBlogInDatabase(dbBlogs, id, fields)
  ELSE UpdateBlog(blogs, id, fields)

\* the store with blog b added, and with blog id removed
WithBlog(store, b) ==
  [i \in DOMAIN store \cup {b.id} |-> IF i = b.id THEN b ELSE store[i]]
WithoutBlog(store, id) == [i \in DOMAIN store \ {id} |-> store[i]]

\* POST /api/blogs
CreateBlogRequest(insertBlog) ==
  /\ nextId < MaxBlogs
  /\ nextId' = nextId + 1
  /\ SetStore(WithBlog(Store, CreateBlog(GeneratedIds[nextId'], insertBlog)))
  /\ liveIds' = liveIds \cup {GeneratedIds[nextId']}
  /\ apiRes' = [op |-> "createBlog", id |-> GeneratedIds[nextId'],
                arg |-> <<>>, status |-> 201]
  /\ UNCHANGED <<storageInstance, publishedIds, storedCredentials, handlerVars, sideVars>>

\* PATCH /api/blogs/:id with a body updateBlogSchema accepts
PatchBlog(id, patch) ==
  /\ SetStore(StorageUpdateBlog(id, patch))
  /\ apiRes' = [op |-> "patchBlog", id |-> id, arg |-> patch,
                status |-> IF id \in DOMAIN Store THEN 200 ELSE 404]
  /\ UNCHANGED <<storageInstance, nextId, liveIds, publishedIds,
                 storedCredentials, handlerVars, sideVars>>

\* DELETE /api/blogs/:id
DeleteBlog(id) ==
  /\ SetStore(WithoutBlog(Store, id))
  /\ liveIds' = liveIds \ {id}
  /\ apiRes' = [op |-> "deleteBlog", id |-> id, arg |-> <<>>,
                status |-> IF id \in DOMAIN Store THEN 204 ELSE 404]
  /\ UNCHANGED <<storageInstance, nextId, publishedIds, storedCredentials,
                 handlerVars, sideVars>>

(***************************************************************************)
(* The image-replace routes                                                *)
(***************************************************************************)
\* the :imageIndex parameters and the images a replace is tried with; a url
\* of "" stands for a body without newImage or without newImage.url
IndexParams == {"-1", "0", "1", "2", "abc", "1abc"}

NewImages ==
  { [url |-> "https://img.example/new.jpg", description |-> "new",
     alt_description |-> ""],
    [url |-> "https://img.example/new.jpg", description |-> "",
     alt_description |-> ""],
    [url |-> "", description |-> "", alt_description |-> ""] }

\* parseInt(imageIndex): the leading integer of the text, NaN when it has none
ParseInt(s) ==
  CASE s = "-1" -> [isNaN |-> FALSE, value |-> -1]
    [] s = "0" -> [isNaN |-> FALSE, value |-> 0]
    [] s \in {"1", "1abc"} -> [isNaN |-> FALSE, value |-> 1]
    [] s = "2" -> [isNaN |-> FALSE, value |-> 2]
    [] OTHER -> [isNaN |-> TRUE, value |-> 0]

\* newImage.description || newImage.alt_description || alt
NewAlt(newImage, alt) ==
  IF newImage.description # "" THEN newImage.description
  ELSE IF newImage.alt_description # "" THEN newImage.alt_description
  ELSE alt

\* a bug: the index is taken as counting from one
ReplaceReferenceOneBased(refs, i, v) ==
  [k \in DOMAIN refs |-> IF k = i THEN v ELSE refs[k]]

\* content.replace(imagePattern, ...): the callback rewrites the match whose
\* zero-based position is i and returns every other match as it is
ReplaceReference(refs, i, v) ==
  [k \in DOMAIN refs |-> IF k = i + 1 THEN v ELSE refs[k]]

\* the answer of PATCH /api/blogs/:id/images/:imageIndex
ReplaceImageAtStatus(id, imageIndex, newImage) ==
  IF newImage.url = "" THEN 400
  ELSE IF id \notin DOMAIN Store THEN 404
  ELSE IF ParseInt(imageIndex).isNaN \/ ParseInt(imageIndex).value < 0 THEN 400
  ELSE IF ParseInt(imageIndex).value >= Len(Store[id].imageUrls) THEN 400
  ELSE 200

\* PATCH /api/blogs/:id/images/:imageIndex: only the content is written
ReplaceImageAt(id, imageIndex, newImage) ==
  /\ IF ReplaceImageAtStatus(id, imageIndex, newImage) = 200
     THEN LET i == ParseInt(imageIndex).value
              b == Store[id]
          IN SetStore(StorageUpdateBlog(id,
               [imageUrls |-> ReplaceReference(b.imageUrls, i, newImage.url),
                imageAlts |-> ReplaceReference(b.imageAlts, i,
                                NewAlt(newImage, b.imageAlts[i + 1]))]))
     ELSE UNCHANGED <<blogs, dbBlogs>>
  /\ apiRes' = [op |-> "replaceImageAt", id |-> id,
                arg |-> [imageIndex |-> imageIndex, newImage |-> newImage],
                status |-> ReplaceImageAtStatus(id, imageIndex, newImage)]
  /\ UNCHANGED <<storageInstance, nextId, liveIds, publishedIds,
                 storedCredentials, handlerVars, sideVars>>

\* the positions of the references ![description](url) in the content
Occurrences(b, image) ==
  {k \in DOMAIN b.imageUrls :
     b.imageAlts[k] = image.description /\ b.imageUrls[k] = image.url}

\* content.replace(oldImageMarkdown, newImageMarkdown): the first occurrence
ReplaceFirstOccurrence(refs, at, v) ==
  IF at = {} THEN refs
  ELSE [k \in DOMAIN refs |->
          IF k \in at /\ \A j \in at : k <= j THEN v ELSE refs[k]]

\* images[imageIndex] = newImage, or images.push(newImage)
SetOrPush(images, imageIndex, newImage) ==
  IF Len(images) > imageIndex
  THEN [images EXCEPT ![imageIndex + 1] = newImage]
  ELSE Append(images, newImage)

\* PATCH /api/blogs/:id/images with body {imageIndex, newImage}
ReplaceImage(id, imageIndex, newImage) ==
  /\ id \in DOMAIN Store =>
       imageIndex < Len(Store[id].images) \/ Len(Store[id].images) < MaxImages
  /\ IF id \in DOMAIN Store
     THEN LET b == Store[id]
              image == [url |-> newImage.url, description |-> newImage.description]
              at == IF imageIndex < Len(b.images)
                    THEN Occurrences(b, b.images[imageIndex + 1]) ELSE {}
          IN SetStore(StorageUpdateBlog(id,
               [images |-> SetOrPush(b.images, imageIndex, image),
                imageUrls |-> ReplaceFirstOccurrence(b.imageUrls, at, image.url),
                imageAlts |-> ReplaceFirstOccurrence(b.imageAlts, at,
                                                     image.description)]))
     ELSE UNCHANGED <<blogs, dbBlogs>>
  /\ apiRes' = [op |-> "replaceImage", id |-> id,
                arg |-> [imageIndex |-> imageIndex, newImage |-> newImage],
                status |-> IF id \in DOMAIN Store THEN 200 ELSE 404]
  /\ UNCHANGED <<storageInstance, nextId, liveIds, publishedIds,
                 storedCredentials, handlerVars, sideVars>>

\* no publish is being handled
NoRequest ==
  [id |-> "",
   body |-> [credentials |-> NoCredentials, categoryId |-> Null,
             seoCategoryIds |-> <<>>, hasSeoData |-> FALSE,
             metaDescription |-> "undefined"]]

HandlerIdle ==
  /\ pc = "idle"
  /\ req = NoRequest
  /\ credentials = NoCredentials
  /\ HandlerStart

\* a blog saved by POST /api/blogs, then image replacements on it
ImageInit ==
  /\ \E insertBlog \in SampleInserts :
       blogs = WithBlog(<<>>, CreateBlog(GeneratedIds[1], insertBlog))
  /\ dbBlogs = <<>>
  /\ storageInstance = "MemStorage"
  /\ nextId = 1
  /\ liveIds = {GeneratedIds[1]}
  /\ publishedIds = {}
  /\ storedCredentials = NoCredentials
  /\ apiRes = NoApiRes
  /\ HandlerIdle
  /\ SideIdle

ImageNext ==
  \/ \E id \in {GeneratedIds[1], UnknownBlogId}, imageIndex \in IndexParams,
        newImage \in NewImages :
       ReplaceImageAt(id, imageIndex, newImage)
  \/ \E id \in {GeneratedIds[1], UnknownBlogId}, imageIndex \in 0..2,
        newImage \in {i \in NewImages : i.url # ""} :
       ReplaceImage(id, imageIndex, newImage)

ImageSpec == ImageInit /\ [][ImageNext]_vars

(***************************************************************************)
(* The blog API over the storage proxy                                     *)
(***************************************************************************)
\* the bodies PATCH /api/blogs/:id is tried with
SamplePatches ==
  { [status |-> "draft"],
    [wordpressUrl |-> "https://elsewhere.example"] }

\* the bodies a publish of the API is tried with: with and without a
\* categoryId and a metaDescription
PublishBodies ==
  {r \in SampleRequests : r.seoCategoryIds = <<>> /\ r.categoryId \in {Null, 7}}

\* the tag IDs resolved for the keyword of the blog
ResolvedTagIds == <<TagIdOf["kw"]>>

\* POST /api/blogs/:id/publish, when every remote call answers and a
\* create-post attempt answers 2xx: the blog is found and the record written
PublishBlog(id, body) ==
  /\ id \in DOMAIN Store
  /\ SetStore(StorageUpdateBlog(id, PublishedFieldsOf(body, ResolvedTagIds)))
  /\ publishedIds' = publishedIds \cup {id}
  /\ apiRes' = [op |-> "publish", id |-> id, arg |-> body, status |-> 200]
  /\ UNCHANGED <<storageInstance, nextId, liveIds, storedCredentials, handlerVars, sideVars>>

\* the fields a backup writes back onto the Blog
BackupFields ==
  [githubFilePath |-> "content/blogs/blog.md", githubCommitSha |-> "sha",
   backedUpToGithub |-> "true"]

\* POST /api/blogs/:id/backup-to-github, when the backup succeeds
BackupToGithub(id) ==
  /\ id \in DOMAIN Store
  /\ SetStore(StorageUpdateBlog(id, BackupFields))
  /\ apiRes' = [op |-> "backup", id |-> id, arg |-> <<>>, status |-> 200]
  /\ UNCHANGED <<storageInstance, nextId, liveIds, publishedIds,
                 storedCredentials, handlerVars, sideVars>>

\* initializeStorage().then(storage => storageInstance = storage): the
\* database storage when the database answers, else a new MemStorage, which
\* loads the file the first one saved
InitializeStorage ==
  /\ storageInstance = "MemStorage (initial)"
  /\ \E connected \in BOOLEAN :
       storageInstance' = IF connected THEN "DatabaseStorage" ELSE "MemStorage"
  /\ UNCHANGED <<blogs, dbBlogs, nextId, liveIds, publishedIds, apiRes,
                 storedCredentials, handlerVars, sideVars>>

\* the server has started: no blogs, storage initialization still running
ApiInit ==
  /\ blogs = <<>>
  /\ dbBlogs = <<>>
  /\ storageInstance = "MemStorage (initial)"
  /\ nextId = 0
  /\ liveIds = {}
  /\ publishedIds = {}
  /\ storedCredentials = NoCredentials
  /\ apiRes = NoApiRes
  /\ HandlerIdle
  /\ SideIdle

\* the IDs requests are made for
RequestIds == {GeneratedIds[k] : k \in 1..MaxBlogs}

ApiNext ==
  \/ InitializeStorage
  \/ \E insertBlog \in SampleInserts : CreateBlogRequest(insertBlog)
  \/ \E id \in RequestIds, patch \in SamplePatches : PatchBlog(id, patch)
  \/ \E id \in RequestIds : DeleteBlog(id)
  \/ \E id \in RequestIds, newImage \in {i \in NewImages : i.description # ""} :
       ReplaceImageAt(id, "0", newImage)
  \/ \E id \in RequestIds, body \in PublishBodies : PublishBlog(id, body)
  \/ \E id \in RequestIds : BackupToGithub(id)

ApiSpec == ApiInit /\ [][ApiNext]_vars

(***************************************************************************)
(* The WordPress credentials routes                                        *)
(***************************************************************************)
\* the bodies POST /api/wordpress/credentials is tried with; "" is a field
\* the body lacks
CredentialBodies ==
  [name : {"site", "blog"},
   wordpressUrl : {"https://a.example", "https://b.example"},
   username : {"", "admin", "editor"},
   password : {"", "app-password-1", "app-password-2", "app-password-3"}]

\* new Date().toISOString() at the time of a save
SaveTimes == {"2025-01-01T00:00:00.000Z", "2025-01-02T00:00:00.000Z"}

\* a bug: the stored credentials are rendered whole
SafeCredentialsWithPassword(c) == c

\* const { password, ...safeCredentials } = credentials
SafeCredentials(c) == [f \in DOMAIN c \ {"password"} |-> c[f]]

\* the body GET /api/wordpress/credentials answers with; <<>> is null
GetCredentialsBody(stored) ==
  IF stored # NoCredentials THEN SafeCredentials(stored) ELSE <<>>

\* the answer of POST /api/wordpress/credentials
AllFieldsGiven(body) ==
  body.name # "" /\ body.wordpressUrl # "" /\ body.username # "" /\ body.password # ""

SaveCredentialsBody(body) ==
  IF AllFieldsGiven(body)
  THEN [success |-> "true", message |-> "WordPress credentials saved successfully"]
  ELSE [error |-> "All fields are required"]

\* POST /api/wordpress/credentials
SaveCredentials(body, now) ==
  /\ storedCredentials' =
       IF AllFieldsGiven(body)
       THEN [name |-> body.name, wordpressUrl |-> body.wordpressUrl,
             username |-> body.username, password |-> body.password,
             createdAt |-> now]
       ELSE storedCredentials
  /\ apiRes' = [op |-> "saveCredentials", id |-> "", arg |-> SaveCredentialsBody(body),
                status |-> IF AllFieldsGiven(body) THEN 200 ELSE 400]
  /\ UNCHANGED <<blogs, dbBlogs, storageInstance, nextId, liveIds, publishedIds,
                 handlerVars, sideVars>>

\* GET /api/wordpress/credentials
GetCredentials ==
  /\ apiRes' = [op |-> "getCredentials", id |-> "",
                arg |-> GetCredentialsBody(storedCredentials), status |-> 200]
  /\ UNCHANGED <<blogs, dbBlogs, storageInstance, nextId, liveIds, publishedIds,
                 storedCredentials, handlerVars, sideVars>>

\* no credentials are stored
CredentialsInit ==
  /\ blogs = <<>>
  /\ dbBlogs = <<>>
  /\ storageInstance = "MemStorage"
  /\ nextId = 0
  /\ liveIds = {}
  /\ publishedIds = {}
  /\ storedCredentials = NoCredentials
  /\ apiRes = NoApiRes
  /\ HandlerIdle
  /\ SideIdle

CredentialsNext ==
  \/ \E body \in CredentialBodies, now \in SaveTimes : SaveCredentials(body, now)
  \/ GetCredentials

CredentialsSpec == CredentialsInit /\ [][CredentialsNext]_vars

(***************************************************************************)
(* Client: matching the suggested categories against the live categories   *)
(***************************************************************************)
\* a string is the sequence of its characters
UpperCaseLetters ==
  <<"A", "B", "C", "D", "E", "F", "G", "H", "I", "J", "K", "L", "M",
    "N", "O", "P", "Q", "R", "S", "T", "U", "V", "W", "X", "Y", "Z">>
LowerCaseLetters ==
  <<"a", "b", "c", "d", "e", "f", "g", "h", "i", "j", "k", "l", "m",
    "n", "o", "p", "q", "r", "s", "t", "u", "v", "w", "x", "y", "z">>

\* String.prototype.toLowerCase
ToLowerCase(str) ==
  [i \in DOMAIN str |->
     IF \E k \in DOMAIN UpperCaseLetters : UpperCaseLetters[k] = str[i]
     THEN LowerCaseLetters[CHOOSE k \in DOMAIN UpperCaseLetters : UpperCaseLetters[k] = str[i]]
     ELSE str[i]]

\* String.prototype.includes
Includes(str, part) ==
  \E i \in 0..(Len(str) - Len(part)) : SubSeq(str, i + 1, i + Len(part)) = part

\* the groups of the partial matching, in the order of the if statements
SynonymGroups ==
  <<{<<"t", "e", "c", "h">>, <<"a", "i">>, <<"a", "u", "t", "o", "m", "a", "t", "i", "o", "n">>},
    {<<"b", "u", "s", "i", "n", "e", "s", "s">>, <<"e", "n", "t", "r", "e", "p", "r", "e", "n", "e", "u", "r">>},
    {<<"m", "a", "r", "k", "e", "t", "i", "n", "g">>, <<"s", "e", "o">>},
    {<<"f", "i", "n", "a", "n", "c", "e">>, <<"m", "o", "n", "e", "y">>},
    {<<"p", "e", "r", "s", "o", "n", "a", "l">>, <<"p", "r", "o", "d", "u", "c", "t", "i", "v", "i", "t", "y">>}>>

\* the names the matching is tried with
AiToolsName == <<"A", "I", " ", "T", "o", "o", "l", "s">>
BusinessTravelName == <<"B", "u", "s", "i", "n", "e", "s", "s", " ", "T", "r", "a", "v", "e", "l">>

\* seoAnalysis.suggestedCategories; the empty string is a falsy suggestion
SampleSuggestions ==
  {AiToolsName, BusinessTravelName, <<"t", "r", "a", "v", "e", "l">>,
   <<"H", "e", "a", "l", "t", "h">>, <<>>}

\* categoriesData.categories
Technology == [id |-> 7, name |-> <<"T", "e", "c", "h", "n", "o", "l", "o", "g", "y">>]
Travel == [id |-> 9, name |-> <<"T", "r", "a", "v", "e", "l">>]
HealthyLiving ==
  [id |-> 4, name |-> <<"H", "e", "a", "l", "t", "h", "y", " ", "L", "i", "v", "i", "n", "g">>]
SampleCategoryLists ==
  {<<>>, <<Technology>>, <<Travel>>, <<HealthyLiving, Travel>>, <<Travel, Technology>>}

\* no category: the result of a find that matches nothing
NoCategory == [id |-> Null, name |-> <<>>]

\* Array.prototype.find over the live categories: the first category whose
\* index is among the indices the callback accepts
FindCategoryAmong(categories, hits) ==
  IF hits # {}
  THEN categories[CHOOSE k \in hits : \A j \in hits : k <= j]
  ELSE NoCategory

\* the callback of the second find: the first group the suggestion names
\* decides alone; containment is reached only when it names no group
PartialMatch(aiSuggestion, catName) ==
  LET named == {g \in DOMAIN SynonymGroups :
                  \E w \in SynonymGroups[g] : Includes(aiSuggestion, w)}
  IN IF named # {}
     THEN LET g == CHOOSE g \in named : \A h \in named : g <= h
          IN \E w \in SynonymGroups[g] : Includes(catName, w)
     ELSE Includes(catName, aiSuggestion) \/ Includes(aiSuggestion, catName)

\* the live category a suggestion is matched to
MatchCategory(suggestion, categories) ==
  LET exactHits == {k \in DOMAIN categories :
                      ToLowerCase(categories[k].name) = ToLowerCase(suggestion)}
      partialHits == {k \in DOMAIN categories :
                        PartialMatch(ToLowerCase(suggestion),
                                     ToLowerCase(categories[k].name))}
      exact == FindCategoryAmong(categories, exactHits)
  IN IF exact # NoCategory THEN exact
     ELSE FindCategoryAmong(categories, partialHits)

\* one iteration of `for (const suggestion of suggestedCategories)`
MatchSuggestion ==
  /\ suggestionIndex \in DOMAIN suggestedCategories
  /\ LET suggestion == suggestedCategories[suggestionIndex]
         matchedCategory == MatchCategory(suggestion, categoriesData)
     IN matchedCategories' =
          IF /\ suggestion # <<>>
             /\ matchedCategory # NoCategory
             /\ \A k \in DOMAIN matchedCategories :
                  matchedCategories[k].id # matchedCategory.id
          THEN Append(matchedCategories, matchedCategory)
          ELSE matchedCategories
  /\ suggestionIndex' = suggestionIndex + 1
  /\ UNCHANGED <<categoriesData, suggestedCategories, raceVars, rotationVars,
                 clientVars, textVars, storageVars, apiVars, publishedIds,
                 handlerVars>>

\* the categories are fetched and the SEO analysis has answered
MatchInit ==
  /\ categoriesData \in SampleCategoryLists
  /\ \E first \in SampleSuggestions, second \in SampleSuggestions :
       suggestedCategories \in {<<first>>, <<first, second>>}
  /\ matchedCategories = <<>>
  /\ suggestionIndex = 1
  /\ NoPublishes /\ NoRotation /\ NoClient /\ NoText
  /\ blogs = <<>>
  /\ dbBlogs = <<>>
  /\ storageInstance = "MemStorage"
  /\ nextId = 0
  /\ liveIds = {}
  /\ publishedIds = {}
  /\ storedCredentials = NoCredentials
  /\ apiRes = NoApiRes
  /\ HandlerIdle

MatchNext == MatchSuggestion

MatchSpec == MatchInit /\ [][MatchNext]_vars

(***************************************************************************)
(* Publish requests in flight at the same time                             *)
(***************************************************************************)
\* Express runs a handler until its next await; the handlers of two requests
\* interleave at their awaits.  Between LoadBlog and PersistResult a handler
\* reads and writes only its own local variables, so a handler is cut here at
\* the three places where it meets the storage or WordPress.
Requests == {"r1", "r2"}

\* the posts WordPress creates, in the order it creates them
CreatedPosts ==
  <<[id |-> "101", link |-> "https://wp.example/?p=101"],
    [id |-> "102", link |-> "https://wp.example/?p=102"]>>
NoPost == [id |-> "", link |-> ""]

\* a publish handler that has not read the blog yet
NewPublish(id, body) ==
  [pc |-> "LoadBlog", id |-> id, body |-> body, blog |-> NoBlog, post |-> NoPost,
   status |-> 0]

\* storage.getBlog(req.params.id): 404 when the blog is unknown
RaceLoadBlog(r) ==
  /\ r \in DOMAIN publishes
  /\ publishes[r].pc = "LoadBlog"
  /\ publishes' =
       [publishes EXCEPT ![r] =
          IF publishes[r].id \in DOMAIN blogs
          THEN [@ EXCEPT !.pc = "CreatePost", !.blog = blogs[publishes[r].id]]
          ELSE [@ EXCEPT !.pc = "done", !.status = 404]]
  /\ UNCHANGED <<wordpressPosts, matchVars, rotationVars, clientVars, textVars,
                 storageVars, apiVars, publishedIds, handlerVars>>

\* the create-post loop of one handler: it ends with a 2xx, and WordPress has
\* created a post, or without one, and the handler answers 500
RaceCreatePost(r) ==
  /\ r \in DOMAIN publishes
  /\ publishes[r].pc = "CreatePost"
  /\ \/ /\ Len(wordpressPosts) < Len(CreatedPosts)
        /\ wordpressPosts' = Append(wordpressPosts, publishes[r].id)
        /\ publishes' =
             [publishes EXCEPT ![r].pc = "PersistResult",
                               ![r].post = CreatedPosts[Len(wordpressPosts')]]
     \/ /\ publishes' = [publishes EXCEPT ![r].pc = "done", ![r].status = 500]
        /\ UNCHANGED wordpressPosts
  /\ UNCHANGED <<matchVars, rotationVars, clientVars, textVars,
                 storageVars, apiVars, publishedIds, handlerVars>>

\* the fields a handler writes back for the post it created
RacePublishedFields(p) ==
  [PublishedFieldsOf(p.body, ResolvedTagIds) EXCEPT
     !.wordpressUrl = p.post.link, !.wordpressPostId = p.post.id]

\* a lock on the record: a blog that is published already is left alone
RacePersistResultKeepsFirst(r) ==
  /\ r \in DOMAIN publishes
  /\ publishes[r].pc = "PersistResult"
  /\ blogs' = IF blogs[publishes[r].id].status = "published" THEN blogs
              ELSE UpdateBlog(blogs, publishes[r].id, RacePublishedFields(publishes[r]))
  /\ publishedIds' = publishedIds \cup {publishes[r].id}
  /\ publishes' = [publishes EXCEPT ![r].pc = "done", ![r].status = 200]
  /\ UNCHANGED <<wordpressPosts, matchVars, rotationVars, clientVars, textVars,
                 storedCredentials, apiVars, handlerVars>>

\* storage.updateBlog with the publication details of the handler's own post
RacePersistResult(r) ==
  /\ r \in DOMAIN publishes
  /\ publishes[r].pc = "PersistResult"
  /\ blogs' = UpdateBlog(blogs, publishes[r].id, RacePublishedFields(publishes[r]))
  /\ publishedIds' = publishedIds \cup {publishes[r].id}
  /\ publishes' = [publishes EXCEPT ![r].pc = "done", ![r].status = 200]
  /\ UNCHANGED <<wordpressPosts, matchVars, rotationVars, clientVars, textVars,
                 storedCredentials, apiVars, handlerVars>>

\* two publish requests for the same blog have arrived
RaceInit ==
  /\ \E b \in SampleBlogs : blogs = [i \in BlogIds |-> [b EXCEPT !.id = i]]
  /\ \E id \in BlogIds :
       publishes \in [Requests -> {NewPublish(id, body) : body \in PublishBodies}]
  /\ wordpressPosts = <<>>
  /\ NoMatching /\ NoRotation /\ NoClient /\ NoText
  /\ dbBlogs = <<>>
  /\ storageInstance = "MemStorage"
  /\ nextId = Cardinality(BlogIds)
  /\ liveIds = BlogIds
  /\ publishedIds = {}
  /\ storedCredentials = StoredCredentials
  /\ apiRes = NoApiRes
  /\ HandlerIdle

RaceNext ==
  \E r \in Requests :
    \/ RaceLoadBlog(r)
    \/ RaceCreatePost(r)
    \/ RacePersistResult(r)

RaceSpec == RaceInit /\ [][RaceNext]_vars

(***************************************************************************)
(* The rotation of the stock-photo API keys                                *)
(***************************************************************************)
\* process.env holds at most four keys
MAX_UNSPLASH_KEYS == 4

\* what the photo API answers a request made with a key: 2xx, 403 (rate limit
\* exceeded), another non-2xx, or the fetch throws
KeyAnswers == {"ok", "rateLimited", "failed", "threw"}

\* the search requests that run at the same time
RotationCallers == {"c1", "c2"}

\* a call of fetchWithUnsplashRotation that has not started
NewRotationCall ==
  [pc |-> "start", i |-> 0, apiKey |-> 0, tried |-> <<>>, result |-> "none"]

\* getNextUnsplashKey: the key at the index (keys are numbered from 1 here),
\* and the index after it
NextUnsplashKey == currentKeyIndex + 1
NextKeyIndex == (currentKeyIndex + 1) % Len(unsplashKeys)

\* the head of the loop of a call c whose counter is i: return null after the
\* last retry or without a key, else take the next key and start the fetch
RotationLoopHead(c, i) ==
  IF i < Len(unsplashKeys)
  THEN /\ rotationCalls' =
            [rotationCalls EXCEPT ![c] =
               [@ EXCEPT !.pc = "fetch", !.i = i, !.apiKey = NextUnsplashKey,
                         !.tried = Append(@, NextUnsplashKey)]]
       /\ currentKeyIndex' = NextKeyIndex
  ELSE /\ rotationCalls' =
            [rotationCalls EXCEPT ![c] = [@ EXCEPT !.pc = "returned", !.i = i,
                                                   !.result = "null"]]
       /\ UNCHANGED currentKeyIndex

\* a search request calls fetchWithUnsplashRotation(url)
StartRotation(c) ==
  /\ c \in DOMAIN rotationCalls
  /\ rotationCalls[c].pc = "start"
  /\ RotationLoopHead(c, 0)
  /\ UNCHANGED <<unsplashKeys, matchVars, raceVars, clientVars, textVars,
                 storageVars, apiVars, publishedIds, handlerVars>>

\* the fetch of call c settles: a 2xx is returned; after anything else the
\* loop goes on with i + 1
FetchSettles(c) ==
  /\ c \in DOMAIN rotationCalls
  /\ rotationCalls[c].pc = "fetch"
  /\ IF unsplashKeys[rotationCalls[c].apiKey] = "ok"
     THEN /\ rotationCalls' =
               [rotationCalls EXCEPT ![c] = [@ EXCEPT !.pc = "returned",
                                                      !.result = "response"]]
          /\ UNCHANGED currentKeyIndex
     ELSE RotationLoopHead(c, rotationCalls[c].i + 1)
  /\ UNCHANGED <<unsplashKeys, matchVars, raceVars, clientVars, textVars,
                 storageVars, apiVars, publishedIds, handlerVars>>

\* the keys are loaded; the rotation index is where earlier requests left it
RotationInit ==
  /\ \E n \in 0..MAX_UNSPLASH_KEYS : unsplashKeys \in [1..n -> KeyAnswers]
  /\ currentKeyIndex \in 0..(IF unsplashKeys = <<>> THEN 0 ELSE Len(unsplashKeys) - 1)
  /\ rotationCalls = [c \in RotationCallers |-> NewRotationCall]
  /\ NoMatching /\ NoPublishes /\ NoClient /\ NoText
  /\ blogs = <<>>
  /\ dbBlogs = <<>>
  /\ storageInstance = "MemStorage"
  /\ nextId = 0
  /\ liveIds = {}
  /\ publishedIds = {}
  /\ storedCredentials = NoCredentials
  /\ apiRes = NoApiRes
  /\ HandlerIdle

RotationNext ==
  \E c \in RotationCallers :
    \/ StartRotation(c)
    \/ FetchSettles(c)

RotationSpec == RotationInit /\ [][RotationNext]_vars

(***************************************************************************)
(* Client: api.publishBlog over apiRequest                                 *)
(***************************************************************************)
\* what the fetch of the publish request can settle with: the answers of the
\* publish endpoint (a body is named by its text), a 401 of something in
\* between, a thrown network error, an abort by the 60 s timer
ServerAnswers ==
  {[kind |-> "response", status |-> 200, body |-> "success: true"],
   [kind |-> "response", status |-> 200, body |-> "{}"],
   [kind |-> "response", status |-> 200, body |-> "null"],
   [kind |-> "response", status |-> 400, body |-> "WordPress credentials are incomplete"],
   [kind |-> "response", status |-> 401,
    body |-> "WordPress authentication failed after multiple attempts"],
   [kind |-> "response", status |-> 401, body |-> "Unauthorized"],
   [kind |-> "response", status |-> 404, body |-> "Blog not found"],
   [kind |-> "response", status |-> 500, body |-> "Failed to publish to WordPress"],
   [kind |-> "throw", status |-> 0, body |-> "Failed to fetch"],
   [kind |-> "throw", status |-> 0, body |-> "AbortError"]}

\* `${res.status}`
StatusText(n) ==
  CASE n = 200 -> "200" [] n = 400 -> "400" [] n = 401 -> "401"
    [] n = 404 -> "404" [] n = 500 -> "500" [] OTHER -> "0"

\* errorText.toLowerCase().includes('authentication')
IncludesAuthentication(errorText) ==
  errorText \in {"WordPress authentication failed after multiple attempts"}

\* the calls of api.publishBlog
ClientCalls ==
  {[blogId |-> id, credentials |-> c, seoData |-> seo] :
     id \in BlogIds \cup {UnknownBlogId},
     c \in {RequestCredentials, NoCredentials},
     seo \in {"undefined", "categoryId: 7"}}

Rejected(message) == [kind |-> "rejected", message |-> message]
Resolved == [kind |-> "resolved", message |-> <<>>]

\* api.publishBlog(blogId, credentials, seoData): apiRequest starts the fetch
CallPublishBlog ==
  /\ clientPc = "idle"
  /\ clientCall' \in ClientCalls
  /\ clientPc' = "fetch"
  /\ UNCHANGED <<serverAnswer, clientResult, matchVars, raceVars, rotationVars,
                 textVars, storageVars, apiVars, publishedIds, handlerVars>>

\* apiRequest after `await fetch`: a thrown fetch goes through its catch, a
\* response goes to throwIfResNotOk
ApiRequestFetched ==
  /\ clientPc = "fetch"
  /\ serverAnswer' \in ServerAnswers
  /\ IF serverAnswer'.kind = "throw"
     THEN /\ clientPc' = "apiRequest threw"
          /\ clientResult' =
               IF serverAnswer'.body = "AbortError"
               THEN Rejected(<<"Request timeout after ", "60",
                               " seconds. Please check your connection and try again.">>)
               ELSE Rejected(<<serverAnswer'.body>>)
     ELSE /\ clientPc' = "throwIfResNotOk"
          /\ UNCHANGED clientResult
  /\ UNCHANGED <<clientCall, matchVars, raceVars, rotationVars,
                 textVars, storageVars, apiVars, publishedIds, handlerVars>>

\* throwIfResNotOk: a non-2xx response is thrown as `${status}: ${errorText}`,
\* and the catch of apiRequest throws it on; a 2xx response is returned
ThrowIfResNotOk ==
  /\ clientPc = "throwIfResNotOk"
  /\ IF ~(serverAnswer.status \in 200..299)
     THEN /\ clientPc' = "apiRequest threw"
          /\ clientResult' =
               Rejected(<<StatusText(serverAnswer.status), ": ", serverAnswer.body>>)
     ELSE /\ clientPc' = "apiRequest returned"
          /\ UNCHANGED clientResult
  /\ UNCHANGED <<clientCall, serverAnswer, matchVars, raceVars, rotationVars,
                 textVars, storageVars, apiVars, publishedIds, handlerVars>>

\* the catch of publishBlog logs the error of apiRequest and throws it on
PublishBlogCatch ==
  /\ clientPc = "apiRequest threw"
  /\ clientPc' = "settled"
  /\ UNCHANGED <<clientCall, serverAnswer, clientResult, matchVars, raceVars,
                 rotationVars, textVars, storageVars, apiVars, publishedIds,
                 handlerVars>>

\* publishBlog with the response apiRequest returned: its own status check,
\* then the checks of the parsed body
PublishBlogResponse ==
  /\ clientPc = "apiRequest returned"
  /\ clientPc' = "settled"
  /\ clientResult' =
       IF ~(serverAnswer.status \in 200..299)
       THEN IF serverAnswer.status = 401 /\ IncludesAuthentication(serverAnswer.body)
            THEN Rejected(<<"WordPress authentication failed. Please check your credentials.">>)
            ELSE Rejected(<<"Publishing failed: ", StatusText(serverAnswer.status),
                            " - ", serverAnswer.body>>)
       ELSE IF serverAnswer.body = "null"
            THEN Rejected(<<"Invalid response format from server">>)
       ELSE IF serverAnswer.body = "{}"
            THEN Rejected(<<"Publishing response missing success confirmation">>)
       ELSE Resolved
  /\ UNCHANGED <<clientCall, serverAnswer, matchVars, raceVars, rotationVars,
                 textVars, storageVars, apiVars, publishedIds, handlerVars>>

\* the page is loaded; nothing is being published
ClientInit ==
  /\ NoClient
  /\ NoMatching /\ NoPublishes /\ NoRotation /\ NoText
  /\ blogs = <<>>
  /\ dbBlogs = <<>>
  /\ storageInstance = "MemStorage"
  /\ nextId = 0
  /\ liveIds = {}
  /\ publishedIds = {}
  /\ storedCredentials = NoCredentials
  /\ apiRes = NoApiRes
  /\ HandlerIdle

ClientNext ==
  \/ CallPublishBlog
  \/ ApiRequestFetched
  \/ ThrowIfResNotOk
  \/ PublishBlogCatch
  \/ PublishBlogResponse

ClientSpec == ClientInit /\ [][ClientNext]_vars

(***************************************************************************)
(* The markdown transform and the excerpt of a publish                     *)
(***************************************************************************)
\* A markdown content is a sequence of lines, one paragraph each (a blank
\* line lies between two lines).  A line is a prefix and the tokens after it;
\* two tokens are one space apart, and "." follows its token directly.
MaxLines == 2
MaxTokens == 2

\* "text20" and "text300" are 20 and 300 characters of plain words
BareUrl == "https://example.com/page"
Tokens ==
  {"text20", "text300", ".", "![alt](url)", "![alt][ref]", "[text](url)", BareUrl}
Prefixes == {"", "# ", "## ", "- "}
SampleLines ==
  [prefix : Prefixes, tokens : UNION {[1..n -> Tokens] : n \in 0..MaxTokens}]
SampleMarkdowns == UNION {[1..n -> SampleLines] : n \in 0..MaxLines}

\* replace(/!\[([^\]]*)\]\(([^)]+)\)/g, ''): the inline images go; a
\* reference-style image has no "(" after its "]" and stays
IsInlineImage(t) == t = "![alt](url)"
RemoveImages(tokens) == SelectSeq(tokens, LAMBDA t : ~IsInlineImage(t))

\* the link and the bare-URL replacements: both become anchors
ToAnchor(t) ==
  CASE t = "[text](url)" -> "<a>text</a>"
    [] t = BareUrl -> "<a>https://example.com/page</a>"
    [] OTHER -> t

\* a paragraph that is dropped: the removed title line, a blank paragraph
NoBlock == [tag |-> "", text |-> <<>>]

\* what the transform makes of one line: images out, the "# title" line
\* replaced by '', "## " to <h2>, "- " to <li> inside <ul>, links to anchors,
\* and whatever holds no <h, <ul or <li wrapped as <p>trimmed</p>.  The
\* heading and list patterns need a character after the prefix.
TransformLine(line) ==
  LET rest == RemoveImages(line.tokens)
      html == [k \in DOMAIN rest |-> ToAnchor(rest[k])]
  IN CASE line.prefix = "# " /\ rest # <<>> -> NoBlock
       [] line.prefix = "# " /\ rest = <<>> -> [tag |-> "p", text |-> <<"#">>]
       [] line.prefix = "## " /\ rest # <<>> -> [tag |-> "h2", text |-> html]
       [] line.prefix = "## " /\ rest = <<>> -> [tag |-> "p", text |-> <<"##">>]
       [] line.prefix = "- " /\ rest # <<>> -> [tag |-> "ul", text |-> html]
       [] line.prefix = "- " /\ rest = <<>> -> [tag |-> "p", text |-> <<"-">>]
       [] line.prefix = "" /\ rest # <<>> -> [tag |-> "p", text |-> html]
       [] OTHER -> NoBlock

\* htmlContent: the paragraphs that are left, in order
MarkdownToHtml(md) ==
  SelectSeq([k \in DOMAIN md |-> TransformLine(md[k])], LAMBDA b : b # NoBlock)

\* the cleaned text of the excerpt, as the pieces it is made of: the title
\* line goes first (the images are still in it), then the inline images, the
\* header marks, and a link keeps its text; "-" stays.  The URL holds a ".".
PiecesOf(t) ==
  CASE IsInlineImage(t) -> <<>>
    [] t = "[text](url)" -> <<"text">>
    [] t = BareUrl -> <<"https://example", ".", "com/page">>
    [] OTHER -> <<t>>

RECURSIVE PiecesOfTokens(_)
PiecesOfTokens(tokens) ==
  IF tokens = <<>> THEN <<>>
  ELSE PiecesOf(Head(tokens)) \o PiecesOfTokens(Tail(tokens))

CleanLine(line) ==
  IF line.prefix = "# " /\ line.tokens # <<>> THEN <<>>
  ELSE (IF line.prefix = "- " THEN <<"-">> ELSE <<>>) \o PiecesOfTokens(line.tokens)

RECURSIVE CleanText(_)
CleanText(md) ==
  IF md = <<>> THEN <<>> ELSE CleanLine(Head(md)) \o CleanText(Tail(md))

\* the number of characters of a piece
PieceLength(piece) ==
  CASE piece = "text20" -> 20
    [] piece = "text300" -> 300
    [] piece = "text" -> 4
    [] piece = "![alt][ref]" -> 11
    [] piece = "https://example" -> 15
    [] piece = "com/page" -> 8
    [] OTHER -> 1

\* a piece that follows the piece before it without a space
Glued(pieces, k) == pieces[k] = "." \/ (k > 1 /\ pieces[k] = "com/page")

\* cleanExcerpt.length after the whitespace is collapsed and trimmed
RECURSIVE TextLength(_)
TextLength(pieces) ==
  IF pieces = <<>> THEN 0
  ELSE LET n == Len(pieces)
       IN TextLength(SubSeq(pieces, 1, n - 1)) + PieceLength(pieces[n])
            + (IF n > 1 /\ ~Glued(pieces, n) THEN 1 ELSE 0)

\* cleanExcerpt.split(/[.!?]+/)
RECURSIVE SplitSentences(_)
SplitSentences(pieces) ==
  IF pieces = <<>> THEN << <<>> >>
  ELSE LET rest == SplitSentences(Tail(pieces))
       IN IF Head(pieces) = "." THEN << <<>> >> \o rest
          ELSE << <<Head(pieces)>> \o rest[1] >> \o Tail(rest)

\* trimmed.length > 20 && !trimmed.match(/^https?:\/\//) &&
\* !trimmed.includes('unsplash')
Qualifies(sentence) ==
  TextLength(sentence) > 20 /\ sentence[1] # "https://example"

\* cleanExcerpt.substring(0, 160).replace(/\s+\S*$/, ''): the text up to its
\* last space, when it has one (the texts here that reach this have less than
\* 160 characters)
Truncate(pieces) ==
  LET spaces == {k \in 2..Len(pieces) : ~Glued(pieces, k)}
  IN IF spaces = {} THEN pieces
     ELSE SubSeq(pieces, 1, (CHOOSE k \in spaces : \A j \in spaces : j <= k) - 1)

\* the length of 'A comprehensive guide on sustainable fashion and ethical living.'
GENERIC_EXCERPT_LENGTH == 64

\* the excerpt: its kind, its length, the pieces of its first sentence
Excerpt(md) ==
  LET pieces == CleanText(md)
      sentences == SplitSentences(pieces)
      good == {k \in DOMAIN sentences : Qualifies(sentences[k])}
  IN IF good # {}
     THEN LET first == sentences[CHOOSE k \in good : \A j \in good : k <= j]
          IN [kind |-> "sentence", len |-> TextLength(first) + 1,
              firstSentence |-> first]
     ELSE IF TextLength(pieces) > 20
     THEN [kind |-> "truncated",
           len |-> Min(TextLength(Truncate(pieces)), 160),
           firstSentence |-> SplitSentences(Truncate(pieces))[1]]
     ELSE [kind |-> "generic", len |-> GENERIC_EXCERPT_LENGTH,
           firstSentence |-> <<"generic">>]

\* the transform of blog.content to htmlContent
TransformMarkdown ==
  /\ ~htmlContent.done
  /\ htmlContent' = [done |-> TRUE, blocks |-> MarkdownToHtml(markdown)]
  /\ UNCHANGED <<markdown, cleanExcerpt, matchVars, raceVars, rotationVars,
                 clientVars, storageVars, apiVars, publishedIds, handlerVars>>

\* the excerpt, computed from blog.content after the transform
ComputeExcerpt ==
  /\ htmlContent.done
  /\ cleanExcerpt = NoExcerpt
  /\ cleanExcerpt' = Excerpt(markdown)
  /\ UNCHANGED <<markdown, htmlContent, matchVars, raceVars, rotationVars,
                 clientVars, storageVars, apiVars, publishedIds, handlerVars>>

\* a blog with some content is about to be published
TextInit ==
  /\ markdown \in SampleMarkdowns
  /\ htmlContent = NoHtml
  /\ cleanExcerpt = NoExcerpt
  /\ NoMatching /\ NoPublishes /\ NoRotation /\ NoClient
  /\ blogs = <<>>
  /\ dbBlogs = <<>>
  /\ storageInstance = "MemStorage"
  /\ nextId = 0
  /\ liveIds = {}
  /\ publishedIds = {}
  /\ storedCredentials = NoCredentials
  /\ apiRes = NoApiRes
  /\ HandlerIdle

TextNext ==
  \/ TransformMarkdown
  \/ ComputeExcerpt

TextSpec == TextInit /\ [][TextNext]_vars

(***************************************************************************)
(* Claims                                                                  *)
(***************************************************************************)
\* the create-post body has been built
Prepared == wordpressData # NoWordpressData

\* the publish ended Published / Failed
Published == pc = "done" /\ res.status = 200 /\ res.success
Failed == pc = "done" /\ res.status >= 400

\* the latest create-post attempt answered 401 or 403
FatalAnswer == lastOutcome.kind = "response" /\ lastOutcome.status \in {401, 403}

C2_FatalStopsRetries ==
  FatalAnswer =>
    /\ pc \in {"AfterLoop", "Thrown", "done"}
    /\ retryWait = 0
    /\ attempt = failures + 1
    /\ ~publishSuccess
    /\ pc = "done" => Failed

\* a 401 on the first attempt: one attempt, Failed
C2_Witness ==
  Failed /\ lastOutcome = Resp(401) /\ attempt = 1

\* C3: a publish that fails on a 401/403 of create-post is answered as an
\* authentication failure: a 401 carrying needsCredentials, as for a failed
\* auth probe.
C3_AuthFailureDistinguished ==
  (pc = "done" /\ FatalAnswer) => res.status = 401 /\ res.needsCredentials

\* the error detail of a create-post outcome: the status of a response, the
\* error of a thrown fetch
DetailOf(o) ==
  IF o.kind = "response"
  THEN ErrorMessage([status |-> o.status, bodyUsed |-> TRUE])
  ELSE o.error

\* C4: when all 8 attempts fail, the publish ends Failed with the error detail
\* of the 8th attempt.
C4_LastErrorDetail ==
  (pc = "done" /\ failures = MAX_ATTEMPTS) =>
    Failed /\ res.details = DetailOf(lastOutcome)

\* C5: the auth probe is tried at most 3 times and stops at the first 2xx;
\* failed attempts 1 and 2 are followed by a wait of attempt x 1000 ms, the
\* third by none; when no attempt succeeds the answer is 401 with
\* needsCredentials and no later step has been started.
C5_AuthProbe ==
  /\ authAttempt <= AUTH_ATTEMPTS
  /\ pc = "Auth" =>
       /\ ~authSuccess
       /\ authAttempt >= 1
       /\ authWait = (authAttempt - 1) * 1000
  /\ pc # "Auth" => authWait = 0
  /\ (pc = "done" /\ blog # NoBlog /\ ~authSuccess) =>
       /\ res.status = 401 /\ res.needsCredentials
       /\ steps = <<"LoadBlog", "Authenticate">>
       /\ attempt = 0
       /\ blogs[req.id] = blog

\* three failed probes: 401 with needsCredentials
C5_Witness ==
  pc = "done" /\ res.status = 401 /\ res.needsCredentials /\ ~authSuccess

\* the credentials the precedence "stored, else request, else default" gives
StoredFirst(c, stored) ==
  IF stored # NoCredentials THEN stored
  ELSE IF ~Incomplete(c) THEN c ELSE DefaultCredentials

\* C6: the publish uses the stored settings whenever they exist, the
\* request's credentials only when there are no stored settings, the default
\* only when there is neither.
C6_StoredCredentialsFirst ==
  (blog # NoBlog /\ pc # "Credentials") =>
    credentials = StoredFirst(req.body.credentials, storedCredentials)

C8_FeaturedMediaAttached ==
  Prepared => wordpressData.featured_media = featuredMediaId

C10_CategoryNeverEmpty ==
  (Prepared /\ availableCategories # <<>>) =>
    /\ wordpressData.categories # <<>>
    /\ Range(wordpressData.categories) \subseteq
         {availableCategories[i].id : i \in DOMAIN availableCategories}
    /\ availableCategories = <<General>> => wordpressData.categories = <<3>>
    /\ ( /\ ValidRequestedIds(RequestedCategoryIds(req.body), availableCategories) = <<>>
         /\ blog.title = {} /\ blog.content = {} ) =>
         wordpressData.categories = <<availableCategories[1].id>>

\* a requested category that is not live, a live list of one: the fallback
C10_Witness ==
  /\ Prepared /\ availableCategories = <<General>>
  /\ RequestedCategoryIds(req.body) = <<5>>
  /\ wordpressData.categories = <<3>>

\* the category ID a record holds for the categories sent with the post
PersistedCategoryOf(cats) == IF cats = <<>> THEN "null" ELSE ToStr(cats[1])

\* C11: after a successful publish the Blog record has status "published",
\* the URL and ID of the created post, a publication time, and the taxonomy of
\* the create-post request: its category, its tag IDs and its meta description.
C11_PersistsResolvedTaxonomy ==
  Published =>
    /\ blogs[req.id].status = "published"
    /\ blogs[req.id].wordpressUrl = PublishedPost.link
    /\ blogs[req.id].wordpressPostId = PublishedPost.id
    /\ blogs[req.id].publishedAt = "now"
    /\ blogs[req.id].categoryId = PersistedCategoryOf(wordpressData.categories)
    /\ blogs[req.id].tagIds = [isNull |-> FALSE, ids |-> wordpressData.tags]
    /\ blogs[req.id].metaDescription = wordpressData.metadesc

\* how often a step was started
TimesStarted(step) == Cardinality({i \in DOMAIN steps : steps[i] = step})

\* C12: a publish reads the Blog record once, as its first step, and writes
\* the storage at most once, in the step that follows a 2xx create-post
\* answer; no other step changes any blog record, so a publish that ends
\* Failed leaves every record as it was.
C12_ReadOnceWriteOnce ==
  /\ [](/\ TimesStarted("LoadBlog") <= 1
        /\ steps # <<>> => steps[1] = "LoadBlog"
        /\ TimesStarted("PersistResult") <= 1
        /\ TimesStarted("PersistResult") = 1 => IsOk(lastOutcome) /\ Published
        /\ Failed => TimesStarted("PersistResult") = 0
        /\ TimesStarted("PersistResult") = 0 /\ blog # NoBlog => blogs[req.id] = blog)
  /\ [][/\ blog' # blog => pc = "LoadBlog"
        /\ blogs' # blogs => pc = "AfterLoop" /\ IsOk(lastOutcome) /\ Published']_vars

\* the retries are exhausted and the record is as LoadBlog read it
C12_Witness ==
  /\ Failed
  /\ attempt = MAX_ATTEMPTS
  /\ ~IsOk(lastOutcome)
  /\ blogs[req.id] = blog

\* C15: PATCH /api/blogs/:id/images/:imageIndex with an image and the ID of a
\* stored blog, i being the index parsed from the parameter: when the content
\* has more than i references (i a number, not negative) the answer is 2xx,
\* the i-th reference in reading order gets the new URL and the new
\* description (the old one when the image has none), and every other
\* reference and every other field of the blog, and every other blog, is as it
\* was; when i is NaN, negative or not less than the number of references the
\* answer is 400 and the storage is unchanged.
C15_ReplaceAtIndex ==
  [][(/\ apiRes'.op = "replaceImageAt"
      /\ apiRes'.id \in DOMAIN Store
      /\ apiRes'.arg.newImage.url # "") =>
       LET id == apiRes'.id
           n == ParseInt(apiRes'.arg.imageIndex)
           newImage == apiRes'.arg.newImage
           old == Store[id]
           new == Store'[id]
       IN IF ~n.isNaN /\ n.value >= 0 /\ n.value < Len(old.imageUrls)
          THEN /\ apiRes'.status = 200
               /\ DOMAIN Store' = DOMAIN Store
               /\ Len(new.imageUrls) = Len(old.imageUrls)
               /\ Len(new.imageAlts) = Len(old.imageAlts)
               /\ new.imageUrls[n.value + 1] = newImage.url
               /\ new.imageAlts[n.value + 1] =
                    NewAlt(newImage, old.imageAlts[n.value + 1])
               /\ \A k \in DOMAIN old.imageUrls \ {n.value + 1} :
                    /\ new.imageUrls[k] = old.imageUrls[k]
                    /\ new.imageAlts[k] = old.imageAlts[k]
               /\ \A f \in DOMAIN old \ {"imageUrls", "imageAlts"} : new[f] = old[f]
               /\ \A other \in DOMAIN Store \ {id} : Store'[other] = Store[other]
          ELSE /\ apiRes'.status = 400
               /\ Store' = Store]_vars

\* the second of two references has been replaced, the first is as it was
C15_Witness ==
  /\ apiRes.op = "replaceImageAt"
  /\ apiRes.status = 200
  /\ apiRes.arg.imageIndex = "1"
  /\ apiRes.id \in DOMAIN Store
  /\ Store[apiRes.id].imageUrls = <<Photo1.url, "https://img.example/new.jpg">>
  /\ Store[apiRes.id].imageAlts = <<Photo1.description, "new">>

\* the images array has one entry per image reference of the content, with
\* the URL of that reference
ImagesAgree(b) ==
  /\ Len(b.images) = Len(b.imageUrls)
  /\ \A k \in DOMAIN b.images : b.images[k].url = b.imageUrls[k]

\* C16: after an image-replace operation on a blog (either route), the images
\* array and the image references of the content agree in number and order.
C16_ImagesAgreeAfterReplace ==
  (/\ apiRes.op \in {"replaceImageAt", "replaceImage"}
   /\ apiRes.status = 200
   /\ apiRes.id \in DOMAIN Store) => ImagesAgree(Store[apiRes.id])

\* C13: a stored blog whose status is "published" does not have status
\* "draft" after any request of the blog API.
C13_StatusOneWay ==
  [][\A id \in DOMAIN Store \cap DOMAIN Store' :
       Store[id].status = "published" => Store'[id].status # "draft"]_vars

\* the publication attributes are all null
Unpublished(b) ==
  /\ b.wordpressUrl = "null"
  /\ b.wordpressPostId = "null"
  /\ b.publishedAt = "null"
  /\ b.categoryId = "null"
  /\ b.tagIds = NullTagIds
  /\ b.metaDescription = "null"

\* C14: a stored blog no publish has succeeded for has status "draft" and
\* all its publication attributes null.
C14_NullUntilPublished ==
  \A id \in DOMAIN Store \ publishedIds :
    Store[id].status = "draft" /\ Unpublished(Store[id])

\* a text field holds a value
HasValue(v) == v \notin {"null", "undefined"}

\* C19: a PATCH of a stored blog changes exactly the fields its body names, on
\* that blog only, and a PATCH of an unknown ID changes nothing; a publish
\* whose request has no categoryId and no metaDescription leaves the
\* categoryId and the metaDescription the record already held.
C19_PartialUpdate ==
  [][storageInstance' = storageInstance =>
     /\ apiRes'.op = "patchBlog" =>
          IF apiRes'.id \in DOMAIN Store
          THEN /\ DOMAIN Store' = DOMAIN Store
               /\ \A f \in DOMAIN Store[apiRes'.id] :
                    Store'[apiRes'.id][f] =
                      IF f \in DOMAIN apiRes'.arg THEN apiRes'.arg[f]
                      ELSE Store[apiRes'.id][f]
               /\ \A other \in DOMAIN Store \ {apiRes'.id} :
                    Store'[other] = Store[other]
          ELSE Store' = Store /\ apiRes'.status = 404
     /\ (/\ apiRes'.op = "publish"
         /\ apiRes'.arg.categoryId = Null
         /\ apiRes'.arg.metaDescription = "undefined") =>
          /\ HasValue(Store[apiRes'.id].categoryId) =>
               Store'[apiRes'.id].categoryId = Store[apiRes'.id].categoryId
          /\ HasValue(Store[apiRes'.id].metaDescription) =>
               Store'[apiRes'.id].metaDescription =
                 Store[apiRes'.id].metaDescription]_vars

\* C20: every blog created and not deleted through the delete endpoint is
\* retrievable by its ID, and holds that ID.
C20_RetrievableUntilDeleted ==
  \A id \in liveIds : id \in DOMAIN Store /\ Store[id].id = id

\* the text of the body renders the value v
Renders(body, v) == \E f \in DOMAIN body : body[f] = v

\* C18: no answer of GET or POST /api/wordpress/credentials has a password
\* field or renders the stored password, and the answer of GET is the same
\* for every store that differs from this one only in the stored password.
C18_PasswordNeverRendered ==
  /\ apiRes.op \in {"getCredentials", "saveCredentials"} =>
       /\ "password" \notin DOMAIN apiRes.arg
       /\ storedCredentials # NoCredentials =>
            ~Renders(apiRes.arg, storedCredentials.password)
  /\ storedCredentials # NoCredentials =>
       \A p \in {b.password : b \in CredentialBodies} \ {""} :
         GetCredentialsBody([storedCredentials EXCEPT !.password = p])
           = GetCredentialsBody(storedCredentials)

\* GET has answered with the stored credentials but for the password
C18_Witness ==
  /\ apiRes.op = "getCredentials"
  /\ storedCredentials # NoCredentials
  /\ storedCredentials.password = "app-password-2"
  /\ Renders(apiRes.arg, storedCredentials.username)
  /\ Renders(apiRes.arg, storedCredentials.wordpressUrl)

\* C17: every remote call a publish makes has a timer that aborts it, and no
\* publish is left waiting for an answer that never comes.
C17_EveryCallTimesOut ==
  /\ \A call \in CallsAt(pc) : AbortAfter(call) > 0
  /\ pc # "Hung"

\* the waits min(3000 * 1.5^(i-1), 60000) ms after the failed attempts
\* i = 1..7, in 1/64 ms: 3000, 4500, 6750, 10125, 15187.5, 22781.25,
\* 34171.875 ms
BackoffWaits == <<192000, 288000, 432000, 648000, 972000, 1458000, 2187000>>

\* the latest create-post attempt failed with a retryable failure
RetryableFailure ==
  \/ lastOutcome.kind = "throw"
  \/ lastOutcome.kind = "response" /\ lastOutcome.status \notin {401, 403}
                                   /\ ~(lastOutcome.status \in 200..299)

C22_WitnessNon2xx ==
  attempt = 2 /\ lastOutcome = Resp(500) /\ retryWait = 288000 /\ pc = "CreatePost"

\* the order in which the handler goes through its steps
HandlerOrder ==
  <<"LoadBlog", "Authenticate", "GenerateTags", "ResolveTags", "TransformContent",
    "UploadFeaturedImage", "ResolveCategories", "ValidateTags", "CreatePost",
    "PersistResult">>

\* the position of a step in HandlerOrder
HandlerRank(step) == CHOOSE i \in DOMAIN HandlerOrder : HandlerOrder[i] = step

\* the position of a step in the state machine LoadBlog, Authenticate,
\* GenerateTags, ResolveTaxonomy, TransformContent, UploadFeaturedImage,
\* CreatePost, PersistResult; ResolveTaxonomy is the resolution of the tag
\* names, of the categories and the validation of the tag IDs
StateMachineRank(step) ==
  CASE step = "LoadBlog" -> 1
    [] step = "Authenticate" -> 2
    [] step = "GenerateTags" -> 3
    [] step \in {"ResolveTags", "ResolveCategories", "ValidateTags"} -> 4
    [] step = "TransformContent" -> 5
    [] step = "UploadFeaturedImage" -> 6
    [] step = "CreatePost" -> 7
    [] step = "PersistResult" -> 8

Started(step) == \E i \in DOMAIN steps : steps[i] = step

InTagLoop == pc = "ResolveTags" /\ tagIndex \in 1..Len(dynamicTags)

\* the positions in dynamicTags of the names whose IDs are in ids, in order
IsSubsequenceOfNames(ids, upTo) ==
  \E pos \in [DOMAIN ids -> 1..upTo] :
    /\ \A k \in DOMAIN ids : ids[k] = TagIdOf[dynamicTags[pos[k]]]
    /\ \A k, l \in DOMAIN ids : k < l => pos[k] < pos[l]

\* C24: the tag names are handled one at a time, in order: a name that is found
\* by the search, or created when the search finds nothing, adds its ID to the
\* end of the ID list; a failure (non-2xx, exception, timeout) of the search or
\* of the create adds no ID and never stops the handling of the names after
\* it: the loop goes on to the next name, and to the transform after the last.
C24_TagFailuresSkipped ==
  /\ [][InTagLoop =>
         /\ tagIds' = IF tagOutcome' \in {"found", "created"}
                      THEN Append(tagIds, TagIdOf[dynamicTags[tagIndex]])
                      ELSE tagIds
         /\ dynamicTags' = dynamicTags
         /\ IF tagIndex < Len(dynamicTags)
            THEN pc' = "ResolveTags" /\ tagIndex' = tagIndex + 1
            ELSE pc' = "Transform"]_vars
  /\ [](/\ InTagLoop => IsSubsequenceOfNames(tagIds, tagIndex - 1)
        /\ pc \notin {"LoadBlog", "Credentials", "Auth", "GenerateTags", "ResolveTags"}
             => IsSubsequenceOfNames(tagIds, Len(dynamicTags)))

\* the search for the first name fails, the second name is still handled and
\* its ID is the only one
C24_Witness ==
  /\ pc = "Transform"
  /\ Len(dynamicTags) = 2
  /\ tagOutcome = "created"
  /\ tagIds = <<TagIdOf[dynamicTags[2]]>>

\* C21: the source backup scheduled by a successful publish is fire-and-forget:
\* when it is scheduled the 2xx answer is already sent and the record already
\* written, and the run of the backup, whatever it ends in (no GitHub
\* credentials, GitHub API error, file error), changes neither the answer nor
\* the blog records.
C21_BackupFireAndForget ==
  /\ [](backup # "none" =>
          /\ Published
          /\ blogs[blog.id].status = "published")
  /\ [][backup' # backup /\ backup # "none" =>
          /\ res' = res
          /\ blogs' = blogs
          /\ pc' = pc]_vars

\* a publish was answered 2xx and the backup failed on the GitHub API later
C21_Witness ==
  Published /\ backup = "githubError" /\ blogs[blog.id].status = "published"

\* the live category the three rules give for a suggestion: the first with the
\* same name, else the first in a synonym group of the suggestion, else the
\* first whose name contains, or is contained in, the suggestion
InSameGroup(a, b) ==
  \E g \in DOMAIN SynonymGroups :
    /\ \E w \in SynonymGroups[g] : Includes(a, w)
    /\ \E w \in SynonymGroups[g] : Includes(b, w)

FirstIdAmong(categories, hits) ==
  IF hits # {}
  THEN categories[CHOOSE k \in hits : \A j \in hits : k <= j].id
  ELSE Null

ByThreeRules(suggestion, categories) ==
  LET sug == ToLowerCase(suggestion)
      same == {k \in DOMAIN categories : ToLowerCase(categories[k].name) = sug}
      group == {k \in DOMAIN categories :
                  InSameGroup(sug, ToLowerCase(categories[k].name))}
      contains == {k \in DOMAIN categories :
                     \/ Includes(ToLowerCase(categories[k].name), sug)
                     \/ Includes(sug, ToLowerCase(categories[k].name))}
  IN IF same # {} THEN FirstIdAmong(categories, same)
     ELSE IF group # {} THEN FirstIdAmong(categories, group)
     ELSE FirstIdAmong(categories, contains)

\* C25: every suggestion handled so far is resolved to the live category with
\* the same name (case-insensitive) if there is one, else to a live category of
\* its synonym group, else to a live category whose name contains, or is
\* contained in, the suggestion; so it resolves whenever one of the three
\* rules has a candidate, also when it names a synonym group without one.
C25_ThreeRuleMatch ==
  \A k \in DOMAIN suggestedCategories :
    (k < suggestionIndex /\ suggestedCategories[k] # <<>>) =>
      LET expected == ByThreeRules(suggestedCategories[k], categoriesData)
      IN expected # Null =>
           \E m \in DOMAIN matchedCategories : matchedCategories[m].id = expected

\* "AI Tools" is matched to Technology (7) by the synonym group of tech and ai
C25_SynonymWitness ==
  /\ suggestedCategories = <<AiToolsName>>
  /\ categoriesData = <<Technology>>
  /\ suggestionIndex = 2
  /\ matchedCategories = <<Technology>>

\* request r writes the record in this step
Persists(r) ==
  /\ r \in DOMAIN publishes
  /\ publishes[r].pc = "PersistResult"
  /\ publishes'[r].pc = "done"

\* C26: publish requests for the same blog are not serialized: nothing keeps a
\* second request from passing LoadBlog while the first is in flight, every
\* request whose create-post succeeds has a WordPress post of its own, and
\* each PersistResult overwrites the record with the identifiers of its own
\* post, so the record holds those of the PersistResult that ran last.
C26_LastPersistWins ==
  /\ [](\A r \in DOMAIN publishes :
          /\ publishes[r].pc = "LoadBlog" => publishes[r].blog = NoBlog
          /\ publishes[r].post # NoPost =>
               /\ \E k \in DOMAIN wordpressPosts :
                    CreatedPosts[k] = publishes[r].post /\ wordpressPosts[k] = publishes[r].id
               /\ \A q \in DOMAIN publishes : q # r => publishes[q].post # publishes[r].post)
  /\ [][\A r \in Requests :
          Persists(r) =>
            /\ blogs'[publishes[r].id].wordpressPostId = publishes[r].post.id
            /\ blogs'[publishes[r].id].wordpressUrl = publishes[r].post.link
            /\ blogs'[publishes[r].id].status = "published"]_vars
  /\ [][blogs' # blogs => \E r \in Requests : Persists(r)]_vars

\* both requests passed LoadBlog, WordPress created two posts for the one
\* blog, and the record holds the first post: its PersistResult ran last
C26_Witness ==
  /\ publishes # <<>>
  /\ \A r \in Requests : publishes[r].pc = "done" /\ publishes[r].status = 200
  /\ wordpressPosts = <<"blog_1", "blog_1">>
  /\ blogs["blog_1"].wordpressPostId = "101"

\* C29: one call of fetchWithUnsplashRotation tries each of the N keys at most
\* once and all N before it returns null, so it returns a response whenever a
\* key would answer 2xx, also when other search requests advance the rotation
\* index between its attempts.
C29_EachKeyOnce ==
  \A c \in DOMAIN rotationCalls :
    LET call == rotationCalls[c]
    IN /\ \A k, l \in DOMAIN call.tried : k # l => call.tried[k] # call.tried[l]
       /\ call.result = "null" =>
            /\ Range(call.tried) = DOMAIN unsplashKeys
            /\ \A k \in DOMAIN unsplashKeys : unsplashKeys[k] # "ok"

\* alone, a call goes through all the keys once before it returns null
C29_AloneWitness ==
  /\ rotationCalls # <<>>
  /\ rotationCalls["c2"].pc = "start"
  /\ rotationCalls["c1"].result = "null"
  /\ rotationCalls["c1"].tried = <<2, 3, 1>>

\* the promise of api.publishBlog has settled on a non-2xx answer
SettledOnNon2xx ==
  /\ clientPc = "settled"
  /\ serverAnswer.kind = "response"
  /\ ~(serverAnswer.status \in 200..299)

\* C30: when the publish endpoint answers 401 with an authentication error
\* body, api.publishBlog rejects with "WordPress authentication failed. Please
\* check your credentials."; on any other non-2xx answer it rejects with
\* "Publishing failed: <status> - <body>".
C30_ClientErrorMessages ==
  SettledOnNon2xx =>
    /\ clientResult.kind = "rejected"
    /\ clientResult.message =
         IF serverAnswer.status = 401 /\ IncludesAuthentication(serverAnswer.body)
         THEN <<"WordPress authentication failed. Please check your credentials.">>
         ELSE <<"Publishing failed: ", StatusText(serverAnswer.status), " - ",
                serverAnswer.body>>

\* a 2xx answer with success: true resolves the promise
C30_ResolvedWitness ==
  clientPc = "settled" /\ serverAnswer.status = 200 /\ clientResult = Resolved

\* the sentences of the cleaned text of the markdown
CleanSentences == SplitSentences(CleanText(markdown))

\* a sentence of at least 20 characters that is not a bare URL
Meaningful(sentence) ==
  /\ TextLength(sentence) >= 20
  /\ sentence # <<"https://example">>

\* C27: the excerpt of every markdown input is non-empty, has at most about
\* 165 characters, and its first sentence holds no raw http(s):// URL; it is
\* the first sentence of the cleaned text with at least 20 characters that is
\* not a bare URL, with a period after it, when there is one.
C27_ExcerptShape ==
  cleanExcerpt.kind # "none" =>
    /\ cleanExcerpt.len > 0
    /\ cleanExcerpt.len <= 165
    /\ \A k \in DOMAIN cleanExcerpt.firstSentence :
         cleanExcerpt.firstSentence[k] # "https://example"
    /\ (\E k \in DOMAIN CleanSentences : Meaningful(CleanSentences[k])) =>
         LET first == CHOOSE k \in DOMAIN CleanSentences :
                        /\ Meaningful(CleanSentences[k])
                        /\ \A j \in 1..(k - 1) : ~Meaningful(CleanSentences[j])
         IN /\ cleanExcerpt.firstSentence = CleanSentences[first]
            /\ cleanExcerpt.len = TextLength(CleanSentences[first]) + 1

\* the excerpt has more than 165 characters
C27_TooLong == cleanExcerpt.kind = "sentence" /\ cleanExcerpt.len > 165

\* the first sentence of the excerpt holds a raw URL
C27_RawUrl ==
  /\ cleanExcerpt.kind = "sentence"
  /\ cleanExcerpt.len <= 165
  /\ \E k \in DOMAIN cleanExcerpt.firstSentence :
       cleanExcerpt.firstSentence[k] = "https://example"

\* a piece of the HTML that is image syntax
ImageSyntax == {"![alt](url)", "![alt][ref]"}

\* C28: the HTML of every markdown input holds no "![" image syntax and no
\* line that is a top-level "# " heading.
C28_NoImageNoTitle ==
  htmlContent.done =>
    \A b \in DOMAIN htmlContent.blocks :
      LET block == htmlContent.blocks[b]
      IN /\ \A k \in DOMAIN block.text : block.text[k] \notin ImageSyntax
         /\ ~(block.tag = "" /\ block.text # <<>> /\ block.text[1] = "# ")

\* an inline image and a title line are gone from the HTML
C28_InlineWitness ==
  /\ htmlContent.done
  /\ markdown = <<[prefix |-> "# ", tokens |-> <<"text20">>],
                  [prefix |-> "", tokens |-> <<"![alt](url)", "text20">>]>>
  /\ htmlContent.blocks = <<[tag |-> "p", text |-> <<"text20">>]>>

====
